---- MODULE Spec2Model ----
(***************************************************************************)
(* Model of licencia_scraper.py: the monitoring driver (main,              *)
(* run_continuous_monitoring), one check cycle (run_single_check), the     *)
(* page classifier (check_availability, _check_error_messages,             *)
(* _continue_availability_check), the click loop                           *)
(* (_click_especialidad_button_with_modal_retry) and the two decision      *)
(* policies (handle_error_automatically, handle_error_interactively), the  *)
(* browser session (initialize_browser, recreate_browser_context, cleanup) *)
(* and the overlay guard (_detect_and_close_modals).  The browser, the     *)
(* site and the operator are the environment: what they answer is chosen   *)
(* with \E from small sets.                                                *)
(***************************************************************************)
EXTENDS Naturals, FiniteSets, Sequences, TLC

VARIABLES
    pc,            \* position of the single flow of control
    mode,          \* is_continuous: "none" before main's choice, then "single" / "continuous"
    attempt_count, \* self.attempt_count
    browser,       \* self.browser: "None", "open", or "closed" (a handle to a closed browser)
    url,           \* self.page.url, by the substrings the code tests
    content,       \* page content, as the set of markers the code scans for
    result,        \* run_single_check's local `result`
    ret,           \* the value run_single_check returned to its caller; {} while it runs
    action,        \* run_single_check's local `action` (what the policy returned)
    policy,        \* which decision policy was consulted in this cycle
    decisions,     \* how many times a policy was consulted in this cycle
    modal_closed,  \* handle_error_automatically's local `modal_closed`
    choice,        \* the operator's last answer to a menu prompt
    menu,          \* the menu that produced the interactive action
    rechecked,     \* check_availability runs for the second time (continue_from_current)
    retry_count,   \* the click loop's local `retry_count`; 0 outside the loop's results
    modal_appeared,\* the click loop's local `modal_appeared`
    overlay_cycles,\* cycles of this click loop whose post-click guard found an overlay
    waited,        \* the driver slept the poll interval since the last check ended
    last_guard,    \* what the last run of _detect_and_close_modals in this check cycle returned
    context,       \* self.context: "None", "open", or "closed" (a handle to a closed context)
    page,          \* self.page, likewise
    live,          \* how many browsers, contexts and pages are open and not yet closed
    session_ops,   \* the session operations this check cycle has performed
    guard,         \* the locals of a run of _detect_and_close_modals followed on its own
    scan_fault,    \* the last run of _check_error_messages or _handle_estatus_page swallowed
                   \* a fault (within the run of check_availability that is going on or has
                   \* just returned)
    page_static,   \* since the site answered in this cycle no overlay was found, no call
                   \* raised or was interrupted, the advance control was found at once and
                   \* no click and no operator changed the page
    rut,           \* one entry at get_user_input's identifier prompt, followed on its own
    scan,          \* one run of _check_error_messages over the texts it collected, followed on its own
    user_rut,      \* self.user_rut: << >> (None) until get_user_input has accepted an identifier
    fill,          \* one run of fill_rut_form at the granularity of its page calls, followed on its own
    cycle,         \* the cycles of the click loop at the granularity of their page calls, followed on their own
    closing        \* one run of _close_modal, followed on its own

vars == << pc, mode, attempt_count, browser, url, content, result, ret, action,
           policy, decisions, modal_closed, choice, menu, rechecked, retry_count,
           modal_appeared, overlay_cycles, waited, last_guard, context, page,
           live, session_ops, guard, scan_fault, page_static, rut, scan,
           user_rut,
           fill,
           cycle,
           closing >>

(***************************************************************************)
(* Bounds                                                                  *)
(***************************************************************************)
\* run_continuous_monitoring starts at most this many check cycles
MaxAttempts == 2
\* at most this many cycles of one click loop are disturbed (control not found,
\* overlay after the click, transient error, fault); the next one is undisturbed
MaxDisturbedCycles == 2
\* a run of _detect_and_close_modals followed on its own tries the first
\* MaxSelectors entries of modal_selectors
MaxSelectors == 2
\* query_selector_all returns at most this many elements
MaxMatches == 2

(***************************************************************************)
(* Pages                                                                   *)
(***************************************************************************)
\* URL classes, by the substrings check_availability tests.  With the default
\* ERROR_URL_PATTERN the no-availability URL itself contains 'paso-1.aspx'.
Urls == {"paso1", "paso1_error", "estatus", "other"}

HasPaso1(u) == u \in {"paso1", "paso1_error"}

HasEstatus(u) == u = "estatus"

HasErrorPattern(u) == u = "paso1_error"

\* What a page can contain:
\*   timeout     'tiempo máximo de espera'       (error pattern and keyword)
\*   noexisten   'no existen horas disponibles'  (error pattern and keyword)
\*   banner      'Error: ...'                    (error pattern only)
\*   atencion    '<b>Atención!</b>' without 'Error:' (seen by the status page probe only)
\*   nohaycitas  'no hay citas'                  (keyword only)
\*   seleccione  'seleccione fecha'              (availability keyword)
\*   calendario  an element '#calendario'        (next-step control)
Pages == { {}, {"timeout"}, {"noexisten"}, {"banner"}, {"atencion"},
           {"nohaycitas"}, {"seleccione"}, {"calendario"},
           {"banner", "seleccione"}, {"nohaycitas", "seleccione"},
           {"timeout", "noexisten"} }

(***************************************************************************)
(* Outcomes                                                                *)
(***************************************************************************)
Statuses == {"timeout_error", "no_availability_error", "unknown_error",
             "estatus_error", "no_availability", "no_availability_content",
             "availability_found", "possible_availability", "uncertain",
             "error", "user_interrupted"}

\* the 'available' field each return statement gives its status
AvailableOf(s) ==
    IF s \in {"availability_found", "possible_availability"} THEN "True"
    ELSE IF s \in {"timeout_error", "no_availability_error", "estatus_error",
                   "no_availability", "no_availability_content"} THEN "False"
    ELSE "None"

Outcome(s) == [status |-> s, available |-> AvailableOf(s), action |-> "none"]

\* result = {}
EmptyResult == [status |-> "none", available |-> "None", action |-> "none"]

\* an error scan that knows the timeout message only
CheckErrorMessages_TimeoutOnly(c) ==
    IF "timeout" \in c THEN "timeout_error" ELSE "None"

\* _check_error_messages: "None" when no error text is found
CheckErrorMessages(c) ==
    IF c \cap {"timeout", "noexisten", "banner"} = {} THEN "None"
    ELSE IF "timeout" \in c THEN "timeout_error"
    ELSE IF "noexisten" \in c THEN "no_availability_error"
    ELSE "unknown_error"

\* the keyword scans with the availability keywords tried first
ClassifyContent_AvailabilityFirst(c) ==
    IF "seleccione" \in c THEN "availability_found"
    ELSE IF c \cap {"noexisten", "nohaycitas", "timeout"} # {} THEN "no_availability_content"
    ELSE IF "calendario" \in c THEN "possible_availability"
    ELSE "uncertain"

\* the keyword scans and the DOM probe shared by check_availability and
\* _continue_availability_check
ClassifyContent(c) ==
    IF c \cap {"noexisten", "nohaycitas", "timeout"} # {} THEN "no_availability_content"
    ELSE IF "seleccione" \in c THEN "availability_found"
    ELSE IF "calendario" \in c THEN "possible_availability"
    ELSE "uncertain"

\* _handle_estatus_page: estatus_info['errors'] is not empty
EstatusErrors(c) == c \cap {"atencion", "banner"} # {}

\* check_availability running the error scan on its first call only and
\* going by the keywords when it is called again (continue_from_current)
CheckAvailabilityOutcome_ScanOnce(u, c) ==
    IF rechecked THEN ClassifyContent(c)
    ELSE IF HasPaso1(u) \/ HasEstatus(u)
    THEN IF CheckErrorMessages(c) # "None" THEN CheckErrorMessages(c)
         ELSE IF HasEstatus(u) /\ EstatusErrors(c) THEN "estatus_error"
         ELSE "click_loop"
    ELSE IF HasErrorPattern(u) THEN "no_availability"
    ELSE ClassifyContent(c)

\* check_availability up to its return or its call of the click loop
CheckAvailabilityOutcome(u, c) ==
    IF HasPaso1(u) \/ HasEstatus(u)
    THEN IF CheckErrorMessages(c) # "None" THEN CheckErrorMessages(c)
         ELSE IF HasEstatus(u) /\ EstatusErrors(c) THEN "estatus_error"
         ELSE "click_loop"
    ELSE IF HasErrorPattern(u) THEN "no_availability"
    ELSE ClassifyContent(c)

(***************************************************************************)
(* Decision policies                                                       *)
(***************************************************************************)
\* handle_error_automatically as it was before the session was kept: a timeout
\* restarts from scratch
HandleErrorAutomatically_Restart(status, modal) ==
    IF modal THEN "retry_without_restart"
    ELSE IF status \in {"timeout_error", "estatus_error"} THEN "retry"
    ELSE IF status \in {"no_availability_error", "no_availability_content"} THEN "continue"
    ELSE "retry_without_restart"

\* handle_error_automatically deciding by status before it looks at the guard
HandleErrorAutomatically_StatusFirst(status, modal) ==
    IF status \in {"timeout_error", "estatus_error"} THEN "retry_without_restart"
    ELSE IF status \in {"no_availability_error", "no_availability_content"} THEN "continue"
    ELSE "retry_without_restart"

\* handle_error_automatically, given the status of error_info and what
\* _detect_and_close_modals returned
HandleErrorAutomatically(status, modal) ==
    IF modal THEN "retry_without_restart"
    ELSE IF status \in {"timeout_error", "estatus_error"} THEN "retry_without_restart"
    ELSE IF status \in {"no_availability_error", "no_availability_content"} THEN "continue"
    ELSE "retry_without_restart"

\* what the operator can type at a menu prompt ("x": anything that is no option)
Choices == {"1", "2", "3", "4", "x"}

\* handle_error_interactively with a final else that leaves the program
InteractiveChoice_DefaultExit(c) ==
    IF c = "1" THEN "continue"
    ELSE IF c = "2" THEN "retry"
    ELSE IF c = "3" THEN "manual"
    ELSE "exit"

\* one pass of handle_error_interactively's prompt loop: the value returned,
\* "manual" for the call of _handle_manual_intervention, "prompt" to ask again
InteractiveChoice(c) ==
    IF c = "1" THEN "continue"
    ELSE IF c = "2" THEN "retry"
    ELSE IF c = "3" THEN "manual"
    ELSE IF c = "4" THEN "exit"
    ELSE "prompt"

\* one pass of _handle_manual_intervention's prompt loop
ManualChoice(c) ==
    IF c = "1" THEN "continue_from_current"
    ELSE IF c = "2" THEN "retry"
    ELSE IF c = "3" THEN "prompt"
    ELSE IF c = "4" THEN "exit"
    ELSE "prompt"

\* the test of run_single_check without the status page error
NeedsHandling_NoEstatus(r) ==
    /\ r.available = "False"
    /\ r.status \in {"timeout_error", "no_availability_error"}

\* run_single_check: the test that sends an Outcome to a decision policy
NeedsHandling(r) ==
    /\ r.available = "False"
    /\ r.status \in {"timeout_error", "estatus_error", "no_availability_error"}

\* run_single_check: the 'action' key it stamps on the result for an action
ResultAction(a) ==
    IF a = "retry" THEN "retry"
    ELSE IF a = "continue" THEN "continue"
    ELSE "none"

\* a finally block that looks at the action and the run mode only
ShouldClose_IgnoreStatus(r, is_continuous) ==
    ~ ( \/ r.action \in {"retry", "continue", "continue_from_current"}
        \/ is_continuous )

\* run_single_check's finally block
ShouldClose(r, is_continuous) ==
    ~ ( \/ r.action \in {"retry", "continue", "continue_from_current"}
        \/ r.status \in {"user_interrupted", "max_retries_exceeded"}
        \/ is_continuous )

\* what close() leaves in the attribute that held the object
Close(h) == IF h = "None" THEN "None" ELSE "closed"

\* one fewer live object when the handle closed was open
Less(k, h) == IF h = "open" THEN k - 1 ELSE k

\* initialize_browser creates three objects in turn: the browser (launch), the
\* context, the page; n of them are created before a call raises (all three:
\* no call raises).  Each attribute is assigned as its object is created.
InitStages == 0 .. 3

InitializeBrowser(s, n) ==
    [ browser |-> IF n >= 1 THEN "open" ELSE s.browser,
      context |-> IF n >= 2 THEN "open" ELSE s.context,
      page    |-> IF n >= 3 THEN "open" ELSE s.page,
      live    |-> [ browser |-> s.live.browser + (IF n >= 1 THEN 1 ELSE 0),
                    context |-> s.live.context + (IF n >= 2 THEN 1 ELSE 0),
                    page    |-> s.live.page + (IF n >= 3 THEN 1 ELSE 0) ],
      ops     |-> s.ops \cup (IF n >= 1 THEN {"launch"} ELSE {})
                        \cup (IF n >= 2 THEN {"new_context"} ELSE {})
                        \cup (IF n >= 3 THEN {"new_page"} ELSE {}) ]

\* recreate_browser_context takes four steps in turn: close the page, close
\* the context, create a context, create a page; n of them are done before a
\* call raises (all four: no call raises)
RecreateStages == 0 .. 4

RecreateBrowserContext(s, n) ==
    [ browser |-> s.browser,
      context |-> IF n >= 3 THEN "open"
                  ELSE IF n >= 2 THEN Close(s.context) ELSE s.context,
      page    |-> IF n >= 4 THEN "open"
                  ELSE IF n >= 1 THEN Close(s.page) ELSE s.page,
      live    |-> [ browser |-> s.live.browser,
                    context |-> (IF n >= 2 THEN Less(s.live.context, s.context)
                                 ELSE s.live.context)
                                + (IF n >= 3 THEN 1 ELSE 0),
                    page    |-> (IF n >= 1 THEN Less(s.live.page, s.page)
                                 ELSE s.live.page)
                                + (IF n >= 4 THEN 1 ELSE 0) ],
      ops     |-> s.ops \cup (IF n >= 1 /\ s.page # "None" THEN {"page_close"} ELSE {})
                        \cup (IF n >= 2 /\ s.context # "None" THEN {"context_close"} ELSE {})
                        \cup (IF n >= 3 THEN {"new_context"} ELSE {})
                        \cup (IF n >= 4 THEN {"new_page"} ELSE {}) ]

\* cleanup(force_close=True) closes the page, the context and the browser in
\* turn; n of the three steps are done before a call raises, and the except
\* clause swallows the exception.  The attributes keep their handles.
CleanupStages == 0 .. 3

Cleanup(s, n) ==
    [ browser |-> IF n >= 3 THEN Close(s.browser) ELSE s.browser,
      context |-> IF n >= 2 THEN Close(s.context) ELSE s.context,
      page    |-> IF n >= 1 THEN Close(s.page) ELSE s.page,
      live    |-> [ browser |-> IF n >= 3 THEN Less(s.live.browser, s.browser)
                                ELSE s.live.browser,
                    context |-> IF n >= 2 THEN Less(s.live.context, s.context)
                                ELSE s.live.context,
                    page    |-> IF n >= 1 THEN Less(s.live.page, s.page)
                                ELSE s.live.page ],
      ops     |-> s.ops \cup {"cleanup"} ]

\* run_single_check: the test that calls initialize_browser
NeedsInit(s) == s.browser = "None" \/ s.page = "None"

\* run_single_check recreating the context from the third attempt only
NeedsRecreation_FromThird(n) == n > 2

\* run_single_check: the test that calls recreate_browser_context
NeedsRecreation(n) == n > 1

\* run_continuous_monitoring with the `break` after "CITAS ENCONTRADAS"
DriverNext_StopOnAvailable(r) ==
    IF r.action = "exit" \/ r.available = "True" THEN "break"
    ELSE IF r.action = "retry_without_restart" THEN "goto"
    ELSE IF r.action = "retry" THEN "loop"
    ELSE IF r.action \notin {"retry", "continue", "retry_without_restart"} THEN "wait"
    ELSE "loop"

\* run_continuous_monitoring leaving its loop when a cycle ended with a fault
DriverNext_StopOnError(r) ==
    IF r.action = "exit" \/ r.status = "error" THEN "break"
    ELSE IF r.action = "retry_without_restart" THEN "goto"
    ELSE IF r.action = "retry" THEN "loop"
    ELSE IF r.action \notin {"retry", "continue", "retry_without_restart"} THEN "wait"
    ELSE "loop"

\* run_continuous_monitoring: what the loop body does with a returned result
DriverNext(r) ==
    IF r.action = "exit" THEN "break"
    ELSE IF r.action = "retry_without_restart" THEN "goto"
    ELSE IF r.action = "retry" THEN "loop"
    ELSE IF r.action \notin {"retry", "continue", "retry_without_restart"} THEN "wait"
    ELSE "loop"

\* the click loop retrying on the status page error only
IsTransient_NoTimeout(status) == status \in {"estatus_error"}

\* the click loop: a post-click error scan with this status starts another cycle
IsTransient(status) == status \in {"timeout_error", "estatus_error"}

\* the click loop with the test of the post-click guard inverted
RetryOnModal_Inverted(m) == ~m

\* the click loop: what it does with the post-click guard's answer
RetryOnModal(m) == m

(***************************************************************************)
(* _validate_rut and _format_rut.  A string is the sequence of its         *)
(* characters.                                                             *)
(***************************************************************************)
\* str(v) for v in 0 .. 9, and int(digit) back
DigitChars == << "0", "1", "2", "3", "4", "5", "6", "7", "8", "9" >>

Digits == { DigitChars[i] : i \in 1 .. Len(DigitChars) }

DigitValue(ch) == (CHOOSE i \in 1 .. Len(DigitChars) : DigitChars[i] = ch) - 1

\* what the operator can type: digits, 'K' in both cases, the dash, the
\* period, the space, and a letter that is no check character
Chars == Digits \cup {"K", "k", "-", ".", " ", "x"}

\* str.upper() on one character
Upper(ch) == IF ch = "k" THEN "K" ELSE IF ch = "x" THEN "X" ELSE ch

\* rut.replace(ch, "")
Replace(s, ch) == SelectSeq(s, LAMBDA c : c # ch)

\* rut.replace(" ", "").replace(".", "").upper()
StripAndUpper(s) ==
    LET r == Replace(Replace(s, " "), ".")
    IN  [i \in 1 .. Len(r) |-> Upper(r[i])]

\* a pattern that takes 6 to 8 digits
MatchesPattern_SixToEight(s) ==
    /\ Len(s) \in {6 + 2, 7 + 2, 8 + 2}
    /\ \A i \in 1 .. (Len(s) - 2) : s[i] \in Digits
    /\ s[Len(s) - 1] = "-"
    /\ s[Len(s)] \in Digits \cup {"K"}

\* re.match(r'^\d{7,8}-[\dK]$', rut)
MatchesPattern(s) ==
    /\ Len(s) \in {7 + 2, 8 + 2}
    /\ \A i \in 1 .. (Len(s) - 2) : s[i] \in Digits
    /\ s[Len(s) - 1] = "-"
    /\ s[Len(s)] \in Digits \cup {"K"}

\* the multiplier wrapping after 6 instead of 7
NextMultiplicador_UpTo6(m) == IF m + 1 > 6 THEN 2 ELSE m + 1

\* multiplicador += 1; if multiplicador > 7: multiplicador = 2
NextMultiplicador(m) == IF m + 1 > 7 THEN 2 ELSE m + 1

\* the loop over reversed(numero): the digits numero[1 .. i] are still to be
\* added, the next one with multiplier m
RECURSIVE Suma(_, _, _)
Suma(numero, i, m) ==
    IF i = 0 THEN 0
    ELSE DigitValue(numero[i]) * m + Suma(numero, i - 1, NextMultiplicador(m))

\* dv_calculado
DvCalculado(numero) ==
    LET resto == Suma(numero, Len(numero), 2) % 11
        dv_calculado == 11 - resto
    IN  IF dv_calculado = 11 THEN "0"
        ELSE IF dv_calculado = 10 THEN "K"
        ELSE DigitChars[dv_calculado + 1]

\* a comparison that also takes 'K' for a computed '0'
DvMatches_KForZero(dv, dv_calculado) ==
    dv = dv_calculado \/ (dv = "K" /\ dv_calculado = "0")

\* return dv == dv_calculado
DvMatches(dv, dv_calculado) == dv = dv_calculado

\* _validate_rut
ValidateRut(s) ==
    LET r == StripAndUpper(s)
    IN  IF ~MatchesPattern(r) THEN FALSE
        ELSE DvMatches(r[Len(r)], DvCalculado(SubSeq(r, 1, Len(r) - 2)))

\* _format_rut putting a dash before the last character whether or not the
\* string has one
FormatRut_DashAlways(s) ==
    LET r == StripAndUpper(s)
    IN  IF Len(r) >= 8
        THEN SubSeq(r, 1, Len(r) - 1) \o << "-" >> \o << r[Len(r)] >>
        ELSE r

\* _format_rut without the test of the length
FormatRut_AnyLength(s) ==
    LET r == StripAndUpper(s)
    IN  IF (\A i \in 1 .. Len(r) : r[i] # "-")
        THEN SubSeq(r, 1, Len(r) - 1) \o << "-" >> \o << r[Len(r)] >>
        ELSE r

\* _format_rut
FormatRut(s) ==
    LET r == StripAndUpper(s)
    IN  IF (\A i \in 1 .. Len(r) : r[i] # "-") /\ Len(r) >= 8
        THEN SubSeq(r, 1, Len(r) - 1) \o << "-" >> \o << r[Len(r)] >>
        ELSE r

\* the digits of the example of the prompt, '18977386-2'
RutEjemplo == << "1", "8", "9", "7", "7", "3", "8", "6" >>

(***************************************************************************)
(* Initial state: main has built the LicenciaScraper and calls             *)
(* get_user_input.                                                         *)
(***************************************************************************)
\* no run of _detect_and_close_modals is followed
GuardIdle ==
    [ pc |-> "idle", sel |-> 0, todo |-> << >>, modal_found |-> FALSE,
      any_visible |-> FALSE, lead_visible |-> FALSE, undismissed |-> FALSE,
      returned |-> "none" ]

\* the scraper as __init__ leaves it, main about to ask for the identifier
Constructed ==
    /\ pc = "get_user_input"
    /\ user_rut = << >>
    /\ mode = "none"
    /\ attempt_count = 0
    /\ browser = "None"
    /\ context = "None"
    /\ page = "None"
    /\ live = [browser |-> 0, context |-> 0, page |-> 0]
    /\ session_ops = {}
    /\ url = "other"
    /\ content = {}
    /\ result = EmptyResult
    /\ ret = EmptyResult
    /\ action = "none"
    /\ policy = "none"
    /\ decisions = 0
    /\ modal_closed = FALSE
    /\ choice = "none"
    /\ menu = "none"
    /\ rechecked = FALSE
    /\ retry_count = 0
    /\ modal_appeared = FALSE
    /\ overlay_cycles = 0
    /\ waited = FALSE
    /\ last_guard = "none"
    /\ scan_fault = FALSE
    /\ page_static = TRUE

\* no entry at the identifier prompt is followed
RutIdle ==
    [ pc |-> "idle", rut_input |-> << >>, formatted_rut |-> << >>,
      valid |-> FALSE, formatted_valid |-> FALSE,
      mutated_rut |-> << >>, mutated_valid |-> FALSE,
      reformatted_rut |-> << >> ]

\* no run of fill_rut_form is followed
FillIdle ==
    [ pc |-> "idle", rut_to_use |-> << >>, fill_mode |-> "plain",
      type_mode |-> "plain", read_back |-> << >>, typed |-> FALSE,
      k |-> 0, log |-> << >>, clicked |-> FALSE ]

\* no cycle of the click loop is followed
CycleIdle ==
    [ pc |-> "idle", retry_count |-> 0, k |-> 0, log |-> << >>,
      ended |-> "none" ]

\* no run of _close_modal is followed
ClosingIdle ==
    [ pc |-> "idle", controls |-> << >>, sel |-> 0, visible |-> TRUE,
      tried |-> << >>, returned |-> "none" ]

\* no run of _check_error_messages is followed
ScanIdle == [ pc |-> "idle", found_errors |-> << >>, returned |-> "none" ]

\* the three of them at rest
OthersIdle == fill = FillIdle /\ cycle = CycleIdle /\ closing = ClosingIdle

Init ==
    /\ Constructed
    /\ guard = GuardIdle
    /\ rut = RutIdle
    /\ scan = ScanIdle
    /\ OthersIdle

\* where control goes when run_single_check returns
Caller == IF mode = "continuous" THEN "driver" ELSE "main_result"

\* what a run of _detect_and_close_modals that returned m reported
GuardReport(m) == IF m THEN "overlay" ELSE "clear"

\* where control goes when check_availability returns
AfterCheck == IF rechecked THEN "rsc_return" ELSE "rsc_handle"

(***************************************************************************)
(* get_user_input: the identifier prompt                                   *)
(***************************************************************************)
\* str.strip() for the space
RECURSIVE Strip(_)
Strip(s) ==
    IF s = << >> THEN s
    ELSE IF Head(s) = " " THEN Strip(Tail(s))
    ELSE IF s[Len(s)] = " " THEN Strip(SubSeq(s, 1, Len(s) - 1))
    ELSE s

\* what the operator types at the prompt: nothing, a space, the example
\* '18977386-2' as it stands, between spaces, with periods, without the dash,
\* with another check character, and with two digits fewer
Entries ==
    { << >>,
      << " " >>,
      RutEjemplo \o << "-", "2" >>,
      << " " >> \o RutEjemplo \o << "-", "2", " " >>,
      << "1", "8", ".", "9", "7", "7", ".", "3", "8", "6", "-", "2" >>,
      RutEjemplo \o << "2" >>,
      RutEjemplo \o << "-", "3" >>,
      SubSeq(RutEjemplo, 1, 6) \o << "-", "2" >> }

\* get_user_input taking every entry that is not empty
GetUserInputAccepts_NonEmpty(rut_input) == rut_input # << >>

\* get_user_input: the entry that ends the loop
GetUserInputAccepts(rut_input) ==
    /\ rut_input # << >>
    /\ ValidateRut(FormatRut(rut_input))

\* rut_input = input("RUT: ").strip(); Ctrl+C at the prompt ends main
GetUserInputPrompt ==
    /\ pc = "get_user_input"
    /\ rut.pc = "idle"
    /\ \/ /\ \E s \in Entries :
                rut' = [RutIdle EXCEPT !.pc = "entered", !.rut_input = Strip(s)]
          /\ UNCHANGED pc
       \/ /\ pc' = "done"
          /\ UNCHANGED rut
    /\ UNCHANGED << closing, cycle, fill, user_rut, scan, page_static, scan_fault, guard, session_ops, live, page, context,
                    last_guard, overlay_cycles, modal_appeared, mode, attempt_count, browser,
                    url, content, result, ret, action, policy, decisions, modal_closed,
                    choice, menu, rechecked, retry_count, waited >>

\* the rest of the loop body: an empty entry or one that _validate_rut
\* refuses once formatted leads to another prompt; any other is assigned to
\* self.user_rut, formatted, and ends the loop.  (The prompt for the kind of
\* operation that follows assigns self.operation_type, which is only printed.)
GetUserInput ==
    /\ pc = "get_user_input"
    /\ rut.pc = "entered"
    /\ IF GetUserInputAccepts(rut.rut_input)
       THEN /\ user_rut' = FormatRut(rut.rut_input)
            /\ pc' = "main"
       ELSE UNCHANGED << user_rut, pc >>
    /\ rut' = RutIdle
    /\ UNCHANGED << closing, cycle, fill, scan, page_static, scan_fault, guard, session_ops, live, page, context,
                    last_guard, overlay_cycles, modal_appeared, mode, attempt_count, browser,
                    url, content, result, ret, action, policy, decisions, modal_closed,
                    choice, menu, rechecked, retry_count, waited >>

(***************************************************************************)
(* main: the run-mode prompt                                               *)
(***************************************************************************)
Main ==
    /\ pc = "main"
    /\ \E c \in {"1", "2", "x"} :
          /\ mode' = IF c = "1" THEN "single" ELSE IF c = "2" THEN "continuous" ELSE mode
          /\ pc' = IF c \in {"1", "2"} THEN "run_single_check" ELSE "main"
    /\ UNCHANGED << closing, cycle, fill, user_rut, scan, rut, page_static, scan_fault, guard, session_ops, live, page, context, last_guard, overlay_cycles, modal_appeared, attempt_count, browser, url, content, result, ret,
                    action, policy, decisions, modal_closed, choice, menu, rechecked,
                    retry_count, waited >>

\* main after run_single_check returned: print the result and finish
MainResult ==
    /\ pc = "main_result"
    /\ pc' = "done"
    /\ UNCHANGED << closing, cycle, fill, user_rut, scan, rut, page_static, scan_fault, guard, session_ops, live, page, context, last_guard, overlay_cycles, modal_appeared, mode, attempt_count, browser, url, content, result, ret, action,
                    policy, decisions, modal_closed, choice, menu, rechecked,
                    retry_count, waited >>

(***************************************************************************)
(* run_single_check                                                        *)
(***************************************************************************)
\* the session as the attributes of the scraper hold it
Session ==
    [ browser |-> browser, context |-> context, page |-> page, live |-> live,
      ops |-> session_ops ]

SetSession(s) ==
    /\ browser' = s.browser
    /\ context' = s.context
    /\ page' = s.page
    /\ live' = s.live
    /\ session_ops' = s.ops

\* what a page interaction can raise: playwright's TimeoutError and its Error
\* for a closed page, context or browser
Faults == {"TimeoutError", "TargetClosedError"}

\* an except clause in cleanup that names TimeoutError alone
CleanupCatches_TimeoutOnly(f) == f = "TimeoutError"

\* cleanup's `except Exception`: does it catch the fault f
CleanupCatches(f) == f \in Faults

\* the return statement holding r, then the finally block:
\* cleanup(force_close=True) when should_close.  n of cleanup's close calls
\* are done before one raises the fault f, which cleanup's except clause
\* catches; an exception that left cleanup would replace the value being
\* returned and end main in its except clause.
Finally(r) ==
    IF ShouldClose(result, mode = "continuous")
    THEN \E n \in CleanupStages, f \in Faults :
            /\ SetSession(Cleanup(Session, n))
            /\ IF n = 3 \/ CleanupCatches(f)
               THEN ret' = r /\ pc' = Caller
               ELSE UNCHANGED ret /\ pc' = "done"
    ELSE /\ UNCHANGED << browser, context, page, live, session_ops >>
         /\ ret' = r
         /\ pc' = Caller

\* entry: count the attempt, then initialise the browser unless self.browser
\* and self.page are both set
RunSingleCheck ==
    /\ pc = "run_single_check"
    /\ attempt_count < MaxAttempts
    /\ attempt_count' = attempt_count + 1
    /\ result' = EmptyResult
    /\ action' = "none"
    /\ policy' = "none"
    /\ decisions' = 0
    /\ rechecked' = FALSE
    /\ waited' = FALSE
    /\ retry_count' = 0
    /\ modal_appeared' = FALSE
    /\ overlay_cycles' = 0
    /\ last_guard' = "none"
    /\ ret' = EmptyResult
    /\ modal_closed' = FALSE
    /\ IF NeedsInit(Session)
       THEN \E n \in InitStages :
               /\ SetSession(InitializeBrowser([Session EXCEPT !.ops = {}], n))
               /\ pc' = IF n = 3 THEN "rsc_recreate" ELSE "rsc_except"
       ELSE /\ SetSession([Session EXCEPT !.ops = {}])
            /\ pc' = "rsc_recreate"
    /\ scan_fault' = FALSE
    /\ page_static' = TRUE
    /\ UNCHANGED << closing, cycle, fill, user_rut, scan, rut, guard, mode, url, content, choice, menu >>

\* after the first attempt the context is recreated before the site is loaded
RecreateBrowserContextStep ==
    /\ pc = "rsc_recreate"
    /\ IF NeedsRecreation(attempt_count)
       THEN \E n \in RecreateStages :
               \* a closed browser creates no context: new_context raises
               /\ browser = "closed" => n <= 2
               /\ SetSession(RecreateBrowserContext(Session, n))
               /\ pc' = IF n = 4 THEN "rsc_navigate" ELSE "rsc_except"
       ELSE /\ pc' = "rsc_navigate"
            /\ UNCHANGED << browser, context, page, live, session_ops >>
    /\ UNCHANGED << closing, cycle, fill, user_rut, scan, rut, page_static, scan_fault, guard, mode, attempt_count, url, content, result, ret, action,
                    policy, decisions, modal_closed, choice, menu, rechecked,
                    retry_count, modal_appeared, overlay_cycles, waited,
                    last_guard >>

\* navigate_to_site and fill_rut_form: the site is loaded and the form
\* submitted; the site answers with some page
NavigateAndFill ==
    /\ pc = "rsc_navigate"
    /\ \E u \in Urls, c \in Pages : url' = u /\ content' = c
    /\ pc' = "check_availability"
    /\ UNCHANGED << closing, cycle, fill, user_rut, scan, rut, page_static, scan_fault, guard, mode, attempt_count, browser, context, page, live,
                    session_ops, result, ret, action, policy, decisions,
                    modal_closed, choice, menu, rechecked, retry_count,
                    modal_appeared, overlay_cycles, waited, last_guard >>

\* navigate_to_site or fill_rut_form raises
NavigateFault ==
    /\ pc = "rsc_navigate"
    /\ pc' = "rsc_except"
    /\ UNCHANGED << closing, cycle, fill, user_rut, scan, rut, page_static, scan_fault, guard, mode, attempt_count, browser, context, page, live,
                    session_ops, url, content, result, ret, action, policy,
                    decisions, modal_closed, choice, menu, rechecked,
                    retry_count, modal_appeared, overlay_cycles, waited,
                    last_guard >>

\* the except clause returns an 'error' dict while `result` is still {}, and
\* the finally block runs
RunSingleCheckFault ==
    /\ pc = "rsc_except"
    /\ Finally(Outcome("error"))
    \* the click loop's locals end with the call
    /\ retry_count' = 0
    /\ modal_appeared' = FALSE
    /\ UNCHANGED << closing, cycle, fill, user_rut, scan, rut, page_static, scan_fault, guard, mode, attempt_count, url, content, result, action, policy,
                    decisions, modal_closed, choice, menu, rechecked,
                    overlay_cycles, waited,
                    last_guard >>

\* the test after check_availability: an error Outcome goes to the policy of
\* the run mode, any other Outcome goes on to be shown and returned
RscHandle ==
    /\ pc = "rsc_handle"
    /\ IF NeedsHandling(result)
       THEN /\ decisions' = decisions + 1
            /\ policy' = IF mode = "continuous" THEN "auto" ELSE "interactive"
            /\ pc' = IF mode = "continuous" THEN "auto" ELSE "prompt_main"
       ELSE /\ pc' = "rsc_return"
            /\ UNCHANGED << decisions, policy >>
    /\ scan_fault' = FALSE
    /\ UNCHANGED << closing, cycle, fill, user_rut, scan, rut, page_static, guard, session_ops, live, page, context, last_guard, overlay_cycles, modal_appeared, mode, attempt_count, browser, url, content, result, ret, action,
                    modal_closed, choice, menu, rechecked, retry_count, waited >>

\* handle_error_automatically: run the guard, then decide by status
HandleErrorAutomaticallyStep ==
    /\ pc = "auto"
    /\ \E m \in BOOLEAN :
          /\ modal_closed' = m
          /\ last_guard' = GuardReport(m)
          /\ page_static' = (page_static /\ ~m)
          /\ action' = HandleErrorAutomatically(result.status, m)
    /\ pc' = "rsc_dispatch"
    /\ UNCHANGED << closing, cycle, fill, user_rut, scan, rut, scan_fault, guard, session_ops, live, page, context, overlay_cycles, modal_appeared, mode, attempt_count, browser, url, content, result, ret, policy,
                    decisions, choice, menu, rechecked, retry_count, waited >>

\* handle_error_interactively: one prompt and the operator's answer
HandleErrorInteractively ==
    /\ pc = "prompt_main"
    /\ \E c \in Choices :
          /\ choice' = c
          /\ IF InteractiveChoice(c) = "prompt"
             THEN pc' = "prompt_main" /\ UNCHANGED << action, menu >>
             ELSE IF InteractiveChoice(c) = "manual"
             THEN pc' = "prompt_manual" /\ UNCHANGED << action, menu >>
             ELSE /\ action' = InteractiveChoice(c)
                  /\ menu' = "main"
                  /\ pc' = "rsc_dispatch"
    /\ UNCHANGED << closing, cycle, fill, user_rut, scan, rut, page_static, scan_fault, guard, session_ops, live, page, context, last_guard, overlay_cycles, modal_appeared, mode, attempt_count, browser, url, content, result, ret, policy,
                    decisions, modal_closed, rechecked, retry_count, waited >>

\* _handle_manual_intervention: one prompt and the operator's answer; while
\* the pause is kept the operator may bring the browser to another page
HandleManualIntervention ==
    /\ pc = "prompt_manual"
    /\ \E c \in Choices :
          /\ choice' = c
          /\ IF ManualChoice(c) = "prompt"
             THEN /\ pc' = "prompt_manual"
                  /\ UNCHANGED << action, menu >>
                  /\ IF c = "3"
                     THEN \E u \in Urls, p \in Pages :
                             /\ url' = u
                             /\ content' = p
                             /\ page_static' = (page_static /\ u = url /\ p = content)
                     ELSE UNCHANGED << url, content, page_static >>
             ELSE /\ action' = ManualChoice(c)
                  /\ menu' = "manual"
                  /\ pc' = "rsc_dispatch"
                  /\ UNCHANGED << url, content, page_static >>
    /\ UNCHANGED << closing, cycle, fill, user_rut, scan, rut, scan_fault, guard, session_ops, live, page, context, last_guard, overlay_cycles, modal_appeared, mode, attempt_count, browser, result, ret, policy, decisions,
                    modal_closed, rechecked, retry_count, waited >>

\* the if/elif chain on `action`
RscDispatch ==
    /\ pc = "rsc_dispatch"
    /\ IF action = "continue_from_current"
       THEN /\ rechecked' = TRUE
            /\ pc' = "check_availability"
            /\ UNCHANGED result
       ELSE /\ result' = [result EXCEPT !.action = ResultAction(action)]
            /\ pc' = "rsc_return"
            /\ UNCHANGED rechecked
    /\ UNCHANGED << closing, cycle, fill, user_rut, scan, rut, page_static, scan_fault, guard, session_ops, live, page, context, last_guard, overlay_cycles, modal_appeared, mode, attempt_count, browser, url, content, ret, action, policy,
                    decisions, modal_closed, choice, menu, retry_count, waited >>

\* return result, through the finally block
RscReturn ==
    /\ pc = "rsc_return"
    /\ Finally(result)
    /\ scan_fault' = FALSE
    /\ page_static' = TRUE
    \* the click loop's locals end with the call
    /\ retry_count' = 0
    /\ modal_appeared' = FALSE
    /\ UNCHANGED << closing, cycle, fill, user_rut, scan, rut, guard, last_guard, overlay_cycles, mode, attempt_count, url, content, result, action, policy,
                    decisions, modal_closed, choice, menu, rechecked,
                    waited >>

(***************************************************************************)
(* check_availability                                                      *)
(***************************************************************************)
\* an except clause that names TimeoutError alone
CheckAvailabilityCatches_TimeoutOnly(f) == f = "TimeoutError"

\* check_availability's `except Exception`: does it catch the fault f
CheckAvailabilityCatches(f) == f \in Faults

\* the opening guard: it reports an overlay or none; after an overlay the
\* function waits 2 s and goes on
CheckAvailabilityGuard ==
    /\ pc = "check_availability"
    /\ \E m \in BOOLEAN :
          /\ last_guard' = GuardReport(m)
          /\ page_static' = (page_static /\ ~m)
    /\ pc' = "ca_classify"
    /\ scan_fault' = FALSE
    /\ UNCHANGED << closing, cycle, fill, user_rut, scan, rut, guard, session_ops, live, page, context, overlay_cycles, modal_appeared, mode, attempt_count, browser, url, content, result,
                    ret, action, policy, decisions, modal_closed, choice, menu,
                    rechecked, retry_count, waited >>

\* from the read of the URL to the first return, or to the call of the click loop
CheckAvailability ==
    /\ pc = "ca_classify"
    /\ IF CheckAvailabilityOutcome(url, content) = "click_loop"
       THEN /\ retry_count' = 0
            /\ pc' = "cl_top"
            /\ UNCHANGED result
       ELSE /\ result' = Outcome(CheckAvailabilityOutcome(url, content))
            /\ pc' = AfterCheck
            /\ retry_count' = 0
    /\ overlay_cycles' = 0
    /\ UNCHANGED << closing, cycle, fill, user_rut, scan, rut, page_static, scan_fault, guard, session_ops, live, page, context, last_guard, modal_appeared, mode, attempt_count, browser, url, content, ret, action, policy,
                    decisions, modal_closed, choice, menu, rechecked, waited >>

\* a page interaction of check_availability raises (the wait after an overlay,
\* the screenshot, the content read, the DOM probe): its except clause returns
\* status 'error'
CheckAvailabilityFault ==
    /\ pc = "ca_classify"
    /\ \E f \in Faults :
          IF CheckAvailabilityCatches(f)
          THEN result' = Outcome("error") /\ pc' = AfterCheck
          ELSE pc' = "rsc_except" /\ UNCHANGED result
    /\ retry_count' = 0
    /\ page_static' = FALSE
    /\ UNCHANGED << closing, cycle, fill, user_rut, scan, rut, scan_fault, guard, session_ops, live, page, context, last_guard, overlay_cycles, modal_appeared, mode, attempt_count, browser, url, content, ret, action, policy,
                    decisions, modal_closed, choice, menu, rechecked, waited >>

\* a page interaction of _check_error_messages raises while check_availability
\* scans a paso-1 or estatus page: its except clause returns None, the same
\* answer as "no error text", and check_availability goes on
CheckErrorMessagesFault ==
    /\ pc = "ca_classify"
    /\ HasPaso1(url) \/ HasEstatus(url)
    /\ IF HasEstatus(url) /\ EstatusErrors(content)
       THEN /\ result' = Outcome("estatus_error")
            /\ pc' = AfterCheck
       ELSE /\ pc' = "cl_top"
            /\ UNCHANGED result
    /\ retry_count' = 0
    /\ overlay_cycles' = 0
    /\ scan_fault' = TRUE
    /\ page_static' = FALSE
    /\ UNCHANGED << closing, cycle, fill, user_rut, scan, rut, guard, session_ops, live, page, context, last_guard, modal_appeared, mode, attempt_count, browser, url, content, ret, action, policy,
                    decisions, modal_closed, choice, menu, rechecked, waited >>

\* a page interaction of _handle_estatus_page raises: its except clause
\* returns None, and check_availability goes on to the click loop
HandleEstatusPageFault ==
    /\ pc = "ca_classify"
    /\ HasEstatus(url)
    /\ pc' = "cl_top"
    /\ retry_count' = 0
    /\ overlay_cycles' = 0
    /\ scan_fault' = TRUE
    /\ page_static' = FALSE
    /\ UNCHANGED << closing, cycle, fill, user_rut, scan, rut, guard, session_ops, live, page, context, last_guard, modal_appeared, mode, attempt_count, browser, url, content, result, ret, action, policy,
                    decisions, modal_closed, choice, menu, rechecked, waited >>

(***************************************************************************)
(* _click_especialidad_button_with_modal_retry                             *)
(***************************************************************************)
\* a cycle numbered n may be disturbed
Disturbable(n) == n <= MaxDisturbedCycles

\* the site shows the timeout message
TransientPage(c) == "timeout" \in c

\* top of a cycle: count it (the count is kept up to MaxDisturbedCycles + 1, the
\* first cycle that is not disturbed), look for the advance control
ClickFind ==
    /\ pc = "cl_top"
    /\ retry_count' = IF Disturbable(retry_count) THEN retry_count + 1 ELSE retry_count
    /\ \/ pc' = "cl_click" /\ UNCHANGED page_static          \* control found
       \/ /\ Disturbable(retry_count + 1)                     \* not found: wait 3 s, continue
          /\ pc' = "cl_top"
          /\ page_static' = FALSE
       \/ /\ Disturbable(retry_count + 1)                     \* a step raised
          /\ pc' = "cl_except"
          /\ page_static' = FALSE
    /\ UNCHANGED << closing, cycle, fill, user_rut, scan, rut, scan_fault, guard, session_ops, live, page, context, last_guard, overlay_cycles, modal_appeared, mode, attempt_count, browser, url, content, result, ret, action,
                    policy, decisions, modal_closed, choice, menu, rechecked, waited >>

\* guard, click, wait for network idle, guard again: the site answers with
\* some page, and the second guard reports an overlay or none
ClickButton ==
    /\ pc = "cl_click"
    /\ \E u \in Urls, c \in Pages, m \in BOOLEAN :
          /\ TransientPage(c) => Disturbable(retry_count)
          /\ m => Disturbable(retry_count)
          /\ url' = u
          /\ content' = c
          /\ modal_appeared' = m
          /\ last_guard' = GuardReport(m)
          /\ page_static' = (page_static /\ ~m /\ u = url /\ c = content)
          /\ overlay_cycles' = IF m THEN overlay_cycles + 1 ELSE overlay_cycles
          /\ pc' = IF RetryOnModal(m) THEN "cl_top" ELSE "cl_scan"
    /\ scan_fault' = FALSE
    /\ UNCHANGED << closing, cycle, fill, user_rut, scan, rut, guard, session_ops, live, page, context, mode, attempt_count, browser, result, ret, action, policy,
                    decisions, modal_closed, choice, menu, rechecked, retry_count,
                    waited >>

\* the click or the wait for network idle raised
ClickButtonFault ==
    /\ pc = "cl_click"
    /\ Disturbable(retry_count)
    /\ pc' = "cl_except"
    /\ page_static' = FALSE
    /\ UNCHANGED << closing, cycle, fill, user_rut, scan, rut, scan_fault, guard, session_ops, live, page, context, last_guard, overlay_cycles, modal_appeared, mode, attempt_count, browser, url, content, result, ret, action,
                    policy, decisions, modal_closed, choice, menu, rechecked,
                    retry_count, waited >>

\* no overlay after the click: the error scan, then either another cycle, the
\* error Outcome, or _continue_availability_check's Outcome
ClickScan ==
    /\ pc = "cl_scan"
    /\ IF CheckErrorMessages(content) # "None"
       THEN IF IsTransient(CheckErrorMessages(content))
            THEN pc' = "cl_top" /\ UNCHANGED result
            ELSE /\ result' = Outcome(CheckErrorMessages(content))
                 /\ pc' = AfterCheck
       ELSE /\ result' = Outcome(ClassifyContent(content))
            /\ pc' = AfterCheck
    /\ UNCHANGED << closing, cycle, fill, user_rut, scan, rut, page_static, scan_fault, guard, session_ops, live, page, context, last_guard, overlay_cycles, modal_appeared, mode, attempt_count, browser, url, content, ret, action, policy,
                    decisions, modal_closed, choice, menu, rechecked, retry_count,
                    waited >>

\* a page interaction of _check_error_messages raises in the click loop: it
\* returns None and the loop goes on to _continue_availability_check
ClickScanFault ==
    /\ pc = "cl_scan"
    /\ result' = Outcome(ClassifyContent(content))
    /\ pc' = AfterCheck
    /\ scan_fault' = TRUE
    /\ page_static' = FALSE
    /\ UNCHANGED << closing, cycle, fill, user_rut, scan, rut, guard, session_ops, live, page, context, last_guard, overlay_cycles, modal_appeared, mode, attempt_count, browser, url, content, ret, action, policy,
                    decisions, modal_closed, choice, menu, rechecked, retry_count,
                    waited >>

\* a page interaction of _continue_availability_check raises: status 'error'
ContinueCheckFault ==
    /\ pc = "cl_scan"
    /\ CheckErrorMessages(content) = "None"
    /\ result' = Outcome("error")
    /\ pc' = AfterCheck
    /\ page_static' = FALSE
    /\ UNCHANGED << closing, cycle, fill, user_rut, scan, rut, scan_fault, guard, session_ops, live, page, context, last_guard, overlay_cycles, modal_appeared, mode, attempt_count, browser, url, content, ret, action, policy,
                    decisions, modal_closed, choice, menu, rechecked, retry_count,
                    waited >>

\* except Exception: wait 3 s and continue; if that wait raises too, the
\* exception leaves the loop and check_availability's except clause returns
\* status 'error'
ClickExcept ==
    /\ pc = "cl_except"
    /\ \/ pc' = "cl_top" /\ UNCHANGED result
       \/ \E f \in Faults :
             IF CheckAvailabilityCatches(f)
             THEN result' = Outcome("error") /\ pc' = AfterCheck
             ELSE pc' = "rsc_except" /\ UNCHANGED result
    /\ page_static' = FALSE
    /\ UNCHANGED << closing, cycle, fill, user_rut, scan, rut, scan_fault, guard, session_ops, live, page, context, last_guard, overlay_cycles, modal_appeared, mode, attempt_count, browser, url, content, ret, action, policy,
                    decisions, modal_closed, choice, menu, rechecked, retry_count,
                    waited >>

\* except KeyboardInterrupt: an interrupt inside the try block of a cycle
ClickInterrupt ==
    /\ pc \in {"cl_top", "cl_click", "cl_scan"}
    /\ result' = Outcome("user_interrupted")
    /\ pc' = AfterCheck
    /\ page_static' = FALSE
    /\ UNCHANGED << closing, cycle, fill, user_rut, scan, rut, scan_fault, guard, session_ops, live, page, context, last_guard, overlay_cycles, modal_appeared, mode, attempt_count, browser, url, content, ret, action, policy,
                    decisions, modal_closed, choice, menu, rechecked, retry_count,
                    waited >>

(***************************************************************************)
(* run_continuous_monitoring                                               *)
(***************************************************************************)
\* the loop body after run_single_check returned
Driver ==
    /\ pc = "driver"
    /\ pc' = IF DriverNext(ret) = "break" THEN "done"
             ELSE IF DriverNext(ret) = "wait" THEN "waiting"
             ELSE "run_single_check"
    /\ IF DriverNext(ret) = "goto"
       THEN url' = "other" /\ content' = {}
       ELSE UNCHANGED << url, content >>
    /\ UNCHANGED << closing, cycle, fill, user_rut, scan, rut, page_static, scan_fault, guard, session_ops, live, page, context, last_guard, overlay_cycles, modal_appeared, mode, attempt_count, browser, result, ret, action, policy,
                    decisions, modal_closed, choice, menu, rechecked, retry_count,
                    waited >>

\* the countdown of retry_interval minutes ran to its end
DriverWait ==
    /\ pc = "waiting"
    /\ waited' = TRUE
    /\ pc' = "run_single_check"
    /\ UNCHANGED << closing, cycle, fill, user_rut, scan, rut, page_static, scan_fault, guard, session_ops, live, page, context, last_guard, overlay_cycles, modal_appeared, mode, attempt_count, browser, url, content, result, ret, action,
                    policy, decisions, modal_closed, choice, menu, rechecked,
                    retry_count >>

\* except KeyboardInterrupt: an interrupt during the countdown
DriverInterrupt ==
    /\ pc = "waiting"
    /\ pc' = "done"
    /\ UNCHANGED << closing, cycle, fill, user_rut, scan, rut, page_static, scan_fault, guard, session_ops, live, page, context, last_guard, overlay_cycles, modal_appeared, mode, attempt_count, browser, url, content, result, ret, action,
                    policy, decisions, modal_closed, choice, menu, rechecked,
                    retry_count, waited >>

Next ==
    \/ GetUserInputPrompt
    \/ GetUserInput
    \/ Main
    \/ MainResult
    \/ RunSingleCheck
    \/ RecreateBrowserContextStep
    \/ NavigateAndFill
    \/ NavigateFault
    \/ RunSingleCheckFault
    \/ RscHandle
    \/ HandleErrorAutomaticallyStep
    \/ HandleErrorInteractively
    \/ HandleManualIntervention
    \/ RscDispatch
    \/ RscReturn
    \/ CheckAvailabilityGuard
    \/ CheckAvailability
    \/ CheckAvailabilityFault
    \/ CheckErrorMessagesFault
    \/ HandleEstatusPageFault
    \/ ClickFind
    \/ ClickButton
    \/ ClickButtonFault
    \/ ClickScan
    \/ ClickScanFault
    \/ ContinueCheckFault
    \/ ClickExcept
    \/ ClickInterrupt
    \/ Driver
    \/ DriverWait
    \/ DriverInterrupt

Spec == Init /\ [][Next]_vars

\* the flow of control is one thread that always takes its next step
FairSpec == Init /\ [][Next]_vars /\ WF_vars(Next)

(***************************************************************************)
(* A second call of run_single_check on the same scraper.  main makes one  *)
(* call in single mode; the method is public and takes the session as the  *)
(* attributes hold it, so a caller that awaits it again after a call that  *)
(* ended in cleanup(force_close=True) is followed here.                    *)
(***************************************************************************)
CallAgain ==
    /\ pc = "main_result"
    /\ "cleanup" \in session_ops
    /\ pc' = "run_single_check"
    /\ UNCHANGED << closing, cycle, fill, user_rut, scan, rut, page_static, scan_fault, guard, session_ops, live, page, context, last_guard, overlay_cycles, modal_appeared, mode, attempt_count, browser, url, content, result, ret, action,
                    policy, decisions, modal_closed, choice, menu, rechecked,
                    retry_count, waited >>

ReuseNext == Next \/ CallAgain

ReuseSpec == Init /\ [][ReuseNext]_vars

(***************************************************************************)
(* _detect_and_close_modals, one run followed step by step.  The page is   *)
(* the environment: what query_selector_all returns for a selector, what   *)
(* the visibility probe says of an element and how _close_modal fares are  *)
(* chosen when the selector is queried.                                    *)
(***************************************************************************)
\* an element matched by a selector:
\*   vis    what the visibility probe (modal.evaluate) does: the element is
\*          "visible", it is "hidden", or the call "raises"
\*   close  of a visible element: it has a close "button", it has
\*          "no_control" (Escape, the click outside and the forced hide are
\*          tried), or a call of _close_modal "fails" (it raises)
\*   wait   of a closed element: the 1 s wait that follows is "ok" or "raises"
Elements ==
    { e \in [ vis : {"visible", "hidden", "raises"},
              close : {"button", "no_control", "fails"},
              wait : {"ok", "raises"} ] :
        /\ e.vis # "visible" => (e.close = "button" /\ e.wait = "ok")
        /\ e.close = "fails" => e.wait = "ok" }

\* what query_selector_all can return
MatchLists == UNION { [1 .. n -> Elements] : n \in 0 .. MaxMatches }

\* _close_modal: True after the click on a close button and at the end of the
\* other methods, False from its except clause
CloseModal(e) == e.close # "fails"

\* the guard reporting what its docstring says: found and closed
ProbeElement_FoundAndClosed(e, found) ==
    IF e.vis = "visible" /\ CloseModal(e) THEN TRUE ELSE found

\* if is_visible: modal_found = True
ProbeElement(e, found) ==
    IF e.vis = "visible" THEN TRUE ELSE found

\* some element of the list is visible
AnyVisible(ms) == \E j \in 1 .. Len(ms) : ms[j].vis = "visible"

\* the first element of the list that is not hidden is visible
LeadsVisible(ms) ==
    \E j \in 1 .. Len(ms) :
        /\ ms[j].vis = "visible"
        /\ \A k \in 1 .. (j - 1) : ms[k].vis = "hidden"

\* the variables of the scraper
scraper_vars ==
    << pc, mode, attempt_count, browser, url, content, result, ret, action,
       policy, decisions, modal_closed, choice, menu, rechecked, retry_count,
       modal_appeared, overlay_cycles, waited, last_guard, context, page,
       live, session_ops, scan_fault, page_static, user_rut >>

\* modal_found = False, before the first selector
GuardInit ==
    /\ Constructed
    /\ guard = [GuardIdle EXCEPT !.pc = "select", !.sel = 1]
    /\ rut = RutIdle
    /\ scan = ScanIdle
    /\ OthersIdle

\* for selector in modal_selectors: query_selector_all returns a list or
\* raises (except: continue); after the last selector return modal_found
GuardQuery ==
    /\ guard.pc = "select"
    /\ IF guard.sel > MaxSelectors
       THEN guard' = [guard EXCEPT !.pc = "done", !.returned = guard.modal_found]
       ELSE \/ guard' = [guard EXCEPT !.sel = @ + 1]
            \/ \E ms \in MatchLists :
                  guard' = [guard EXCEPT
                              !.pc = "probe",
                              !.todo = ms,
                              !.any_visible = @ \/ AnyVisible(ms),
                              !.lead_visible = @ \/ LeadsVisible(ms)]
    /\ UNCHANGED << scraper_vars, rut, scan, fill, cycle, closing >>

\* for modal in modals: probe the element, close it when it is visible; a call
\* that raises ends the work on this selector (except: continue)
GuardProbe ==
    /\ guard.pc = "probe"
    /\ IF guard.todo = << >>
       THEN guard' = [guard EXCEPT !.pc = "select", !.sel = @ + 1]
       ELSE LET e == Head(guard.todo)
                raised == \/ e.vis = "raises"
                          \/ e.vis = "visible" /\ CloseModal(e) /\ e.wait = "raises"
            IN  guard' = [guard EXCEPT
                            !.modal_found = ProbeElement(e, @),
                            !.undismissed = @ \/ (e.vis = "visible" /\ ~CloseModal(e)),
                            !.todo = IF raised THEN << >> ELSE Tail(@),
                            !.pc = IF raised THEN "select" ELSE "probe",
                            !.sel = IF raised THEN @ + 1 ELSE @]
    /\ UNCHANGED << scraper_vars, rut, scan, fill, cycle, closing >>

GuardNext ==
    \/ GuardQuery
    \/ GuardProbe

GuardSpec == GuardInit /\ [][GuardNext]_vars

(***************************************************************************)
(* _format_rut and _validate_rut, applied to one entry typed at the prompt *)
(* of get_user_input.                                                      *)
(***************************************************************************)
\* the low-order digits of the typed number that range over every digit
FreeDigits == 2

\* The entries followed.  The number is a prefix of the digits of the example
\* of the prompt, '18977386-2', followed by FreeDigits digits, 6 to 9 digits
\* in all; the last character is any character; the entry is typed plain
\* ('18977386-2'), with periods ('18.977.386-2'), without the dash
\* ('189773862') or with a letter for its first digit ('x8977386-2').
BodyLengths == {6, 7, 8, 9}

Bodies ==
    { SubSeq(RutEjemplo, 1, n - FreeDigits) \o t :
        n \in BodyLengths, t \in [1 .. FreeDigits -> Digits] }

RECURSIVE Dotted(_)
Dotted(b) ==
    IF Len(b) <= 3 THEN b
    ELSE Dotted(SubSeq(b, 1, Len(b) - 3)) \o << "." >> \o SubSeq(b, Len(b) - 2, Len(b))

Shapes == {"plain", "dotted", "nodash", "lettered"}

Typed(b, ch, shape) ==
    IF shape = "plain" THEN b \o << "-", ch >>
    ELSE IF shape = "dotted" THEN Dotted(b) \o << "-", ch >>
    ELSE IF shape = "lettered" THEN [b EXCEPT ![1] = "x"] \o << "-", ch >>
    ELSE b \o << ch >>

\* rut_input = input("RUT: "), over every body, last character and shape
RutInit ==
    /\ Constructed
    /\ guard = GuardIdle
    /\ scan = ScanIdle
    /\ OthersIdle
    /\ \E b \in Bodies, ch \in Chars, shape \in Shapes :
          rut = [RutIdle EXCEPT !.pc = "entered", !.rut_input = Typed(b, ch, shape)]

\* _validate_rut on the entry as typed, _format_rut on it, _validate_rut on
\* the formatted entry and _format_rut on the formatted entry
RutApply ==
    /\ rut.pc = "entered"
    /\ rut' = [rut EXCEPT
                 !.pc = "applied",
                 !.valid = ValidateRut(rut.rut_input),
                 !.formatted_rut = FormatRut(rut.rut_input),
                 !.formatted_valid = ValidateRut(FormatRut(rut.rut_input)),
                 !.reformatted_rut = FormatRut(FormatRut(rut.rut_input))]
    /\ UNCHANGED << scraper_vars, guard, scan, fill, cycle, closing >>

\* an accepted entry typed again with another last character, and
\* _validate_rut on it
RutMutate ==
    /\ rut.pc = "applied"
    /\ rut.valid
    /\ \E ch \in Chars \ {rut.rut_input[Len(rut.rut_input)]} :
          LET m == [rut.rut_input EXCEPT ![Len(rut.rut_input)] = ch]
          IN  rut' = [rut EXCEPT
                        !.pc = "mutated",
                        !.mutated_rut = m,
                        !.mutated_valid = ValidateRut(m)]
    /\ UNCHANGED << scraper_vars, guard, scan, fill, cycle, closing >>

RutNext ==
    \/ RutApply
    \/ RutMutate

RutSpec == RutInit /\ [][RutNext]_vars

(***************************************************************************)
(* _check_error_messages from the texts it collected to its return value.  *)
(* A text is the sequence of its fragments, a fragment being a run of      *)
(* words that single spaces separate from the next one.                    *)
(***************************************************************************)
\* found_errors holds at most this many texts
MaxErrors == 2

\* the texts the selectors and the patterns can collect
ErrorTexts ==
    { << "tiempo máximo", "de espera" >>,
      << "tiempo máximo" >>,
      << "de espera" >>,
      << "EXCEDIDO" >>,
      << "No existen horas" >>,
      << "sin disponibilidad" >>,
      << "Error:" >> }

\* str.lower() on one fragment
Lower(w) ==
    IF w = "EXCEDIDO" THEN "excedido"
    ELSE IF w = "No existen horas" THEN "no existen horas"
    ELSE IF w = "Error:" THEN "error:"
    ELSE w

\* ' '.join(found_errors)
RECURSIVE Join(_)
Join(texts) == IF texts = << >> THEN << >> ELSE Head(texts) \o Join(Tail(texts))

\* phrase in text
Contains(text, phrase) ==
    \E i \in 1 .. (Len(text) - Len(phrase) + 1) :
        SubSeq(text, i, i + Len(phrase) - 1) = phrase

\* the first match of found_errors[0] is the message, all_errors is the list
ErrorResult(s, found_errors) ==
    [ status |-> s, available |-> AvailableOf(s), message |-> found_errors[1],
      all_errors |-> found_errors ]

\* the tests on error_text_lower with the no-availability test first
ErrorStatus_NoAvailabilityFirst(found_errors) ==
    LET joined == Join(found_errors)
        error_text_lower == [i \in 1 .. Len(joined) |-> Lower(joined[i])]
    IN  IF \/ Contains(error_text_lower, << "no existen horas" >>)
           \/ Contains(error_text_lower, << "sin disponibilidad" >>)
        THEN "no_availability_error"
        ELSE IF \/ Contains(error_text_lower, << "tiempo máximo", "de espera" >>)
                \/ Contains(error_text_lower, << "excedido" >>)
        THEN "timeout_error"
        ELSE "unknown_error"

\* the tests on error_text_lower = ' '.join(found_errors).lower()
ErrorStatus(found_errors) ==
    LET joined == Join(found_errors)
        error_text_lower == [i \in 1 .. Len(joined) |-> Lower(joined[i])]
    IN  IF \/ Contains(error_text_lower, << "tiempo máximo", "de espera" >>)
           \/ Contains(error_text_lower, << "excedido" >>)
        THEN "timeout_error"
        ELSE IF \/ Contains(error_text_lower, << "no existen horas" >>)
                \/ Contains(error_text_lower, << "sin disponibilidad" >>)
        THEN "no_availability_error"
        ELSE "unknown_error"

\* found_errors = []
ScanInit ==
    /\ Constructed
    /\ guard = GuardIdle
    /\ rut = RutIdle
    /\ OthersIdle
    /\ scan = [ScanIdle EXCEPT !.pc = "collect"]

\* found_errors.append(text)
ScanCollect ==
    /\ scan.pc = "collect"
    /\ Len(scan.found_errors) < MaxErrors
    /\ \E t \in ErrorTexts :
          scan' = [scan EXCEPT !.found_errors = Append(@, t)]
    /\ UNCHANGED << scraper_vars, guard, rut, fill, cycle, closing >>

\* if found_errors: return the error dict; else return None
ScanReturn ==
    /\ scan.pc = "collect"
    /\ scan' = [scan EXCEPT
                  !.pc = "returned",
                  !.returned = IF scan.found_errors # << >>
                               THEN ErrorResult(ErrorStatus(scan.found_errors),
                                                scan.found_errors)
                               ELSE "None"]
    /\ UNCHANGED << scraper_vars, guard, rut, fill, cycle, closing >>

ScanNext ==
    \/ ScanCollect
    \/ ScanReturn

ScanSpec == ScanInit /\ [][ScanNext]_vars

(***************************************************************************)
(* _close_modal, followed on its own: the close selectors in turn, then    *)
(* Escape, the click outside and the script.  closing.visible is whether   *)
(* the overlay is displayed; closing.tried lists the strategies attempted. *)
(***************************************************************************)
\* close selectors followed, of the 13 of the source
MaxCloseSelectors == 2

\* what a close selector meets: no element; a control whose click returns;
\* query_selector raising; a control whose click raises
ControlKinds == {"none", "clickable", "query_raises", "click_raises"}

\* an Escape that is never taken to have closed the overlay
EscapeClosed_Never(is_still_visible) == FALSE

\* `if not is_still_visible: return True`
EscapeClosed(is_still_visible) == ~is_still_visible

CloseInit ==
    /\ Constructed
    /\ guard = GuardIdle
    /\ rut = RutIdle
    /\ scan = ScanIdle
    /\ fill = FillIdle
    /\ cycle = CycleIdle
    /\ \E c \in [1 .. MaxCloseSelectors -> ControlKinds] :
          closing = [ClosingIdle EXCEPT !.pc = "controls", !.controls = c, !.sel = 1]

\* Método 1: for close_selector in close_selectors: a control found is
\* clicked and the function returns True, whatever the click did to the
\* overlay; an exception of the query or of the click goes to the next
\* selector
CloseControl ==
    /\ closing.pc = "controls"
    /\ IF closing.sel > Len(closing.controls)
       THEN closing' = [closing EXCEPT !.pc = "escape"]
       ELSE LET kind == closing.controls[closing.sel] IN
            IF kind = "clickable"
            THEN \E hides \in BOOLEAN :
                    closing' = [closing EXCEPT
                                  !.pc = "done",
                                  !.tried = Append(@, "close_control"),
                                  !.visible = ~hides,
                                  !.returned = "True"]
            ELSE closing' = [closing EXCEPT
                               !.sel = @ + 1,
                               !.tried = IF kind = "click_raises"
                                         THEN Append(@, "close_control") ELSE @]
    /\ UNCHANGED << scraper_vars, guard, rut, scan, fill, cycle >>

\* Método 2: press Escape, wait, read is_still_visible; return True when the
\* overlay is no longer displayed
CloseEscape ==
    /\ closing.pc = "escape"
    /\ \E hides \in BOOLEAN :
          LET is_still_visible == closing.visible /\ ~hides IN
          closing' = [closing EXCEPT
                        !.tried = Append(@, "escape"),
                        !.visible = is_still_visible,
                        !.pc = IF EscapeClosed(is_still_visible)
                               THEN "done" ELSE "outside",
                        !.returned = IF EscapeClosed(is_still_visible)
                                     THEN "True" ELSE @]
    /\ UNCHANGED << scraper_vars, guard, rut, scan, fill, cycle >>

\* Método 3: click on the body at (10, 10) and wait; nothing is read back
CloseOutside ==
    /\ closing.pc = "outside"
    /\ \E hides \in BOOLEAN :
          closing' = [closing EXCEPT
                        !.tried = Append(@, "outside"),
                        !.visible = closing.visible /\ ~hides,
                        !.pc = "force_hide"]
    /\ UNCHANGED << scraper_vars, guard, rut, scan, fill, cycle >>

\* Método 4: the script hides the element and removes the backdrops;
\* return True
CloseForceHide ==
    /\ closing.pc = "force_hide"
    /\ closing' = [closing EXCEPT
                     !.tried = Append(@, "force_hide"),
                     !.visible = FALSE,
                     !.pc = "done",
                     !.returned = "True"]
    /\ UNCHANGED << scraper_vars, guard, rut, scan, fill, cycle >>

\* the outer `except Exception`: the key press, the visibility script, the
\* click outside or the hiding script raised, having acted on the overlay or
\* not; return False
CloseFault ==
    /\ closing.pc \in {"escape", "outside", "force_hide"}
    /\ \E hides \in BOOLEAN :
          closing' = [closing EXCEPT
                        !.tried = Append(@, closing.pc),
                        !.visible = closing.visible /\ ~hides,
                        !.pc = "done",
                        !.returned = "False"]
    /\ UNCHANGED << scraper_vars, guard, rut, scan, fill, cycle >>

CloseNext ==
    \/ CloseControl
    \/ CloseEscape
    \/ CloseOutside
    \/ CloseForceHide
    \/ CloseFault

CloseSpec == CloseInit /\ [][CloseNext]_vars

(***************************************************************************)
(* fill_rut_form and the cycles of the click loop, followed call by call.  *)
(* fill.log and cycle.log list the guard runs, clicks and waits for        *)
(* network quiescence that returned, in the order they were made.          *)
(***************************************************************************)
\* cycles of the click loop followed
MaxCycles == 2

\* the identifiers run_single_check hands to fill_rut_form
FillRuts == { RutEjemplo \o << "-", "2" >>,
              << "1", "8", "9", "7", "7", "3", "8", "-", "9" >> }

\* how the field of the page takes what is written into it: as written;
\* through a mask that drops the dash; cut at a maxlength one short of the
\* text; not at all
FieldModes == {"plain", "undashed", "capped", "rejecting"}

NotDash(c) == c # "-"

\* input_value() after text was written into a field of this mode
Written(field_mode, text) ==
    IF field_mode = "plain" THEN text
    ELSE IF field_mode = "undashed" THEN SelectSeq(text, NotDash)
    ELSE IF field_mode = "capped" THEN SubSeq(text, 1, Len(text) - 1)
    ELSE << >>

\* a typing retry whose result is not compared
FinalCheck_Skipped(final_value, rut_to_use) == FALSE

\* `if final_value != rut_to_use: raise`
FinalCheck(final_value, rut_to_use) == final_value # rut_to_use

\* the calls around a click without the guard that follows the wait
GuardedClick_NoGuardAfter == << "guard", "click", "wait" >>

\* the calls around a click, in the order of the source, in fill_rut_form and
\* in the click loop alike: _detect_and_close_modals, click,
\* wait_for_load_state('networkidle'), _detect_and_close_modals
GuardedClick == << "guard", "click", "wait", "guard" >>

FillInit ==
    /\ Constructed
    /\ guard = GuardIdle
    /\ rut = RutIdle
    /\ scan = ScanIdle
    /\ cycle = CycleIdle
    /\ closing = ClosingIdle
    /\ \E r \in FillRuts, fm \in FieldModes, tm \in FieldModes :
          fill = [FillIdle EXCEPT !.pc = "start", !.rut_to_use = r,
                                  !.fill_mode = fm, !.type_mode = tm]

\* the guard at the head of fill_rut_form; it catches its own exceptions
FillGuard ==
    /\ fill.pc = "start"
    /\ fill' = [fill EXCEPT !.pc = "find", !.log = Append(@, "guard")]
    /\ UNCHANGED << scraper_vars, guard, rut, scan, cycle, closing >>

\* the selectors of the identifier field in turn; none found: raise
FillFind ==
    /\ fill.pc = "find"
    /\ \E found \in BOOLEAN :
          fill' = [fill EXCEPT !.pc = IF found THEN "write" ELSE "raised"]
    /\ UNCHANGED << scraper_vars, guard, rut, scan, cycle, closing >>

\* the field is emptied, rut_input.fill(rut_to_use), and the value is read
\* back; any of the calls may raise
FillWrite ==
    /\ fill.pc = "write"
    /\ \/ fill' = [fill EXCEPT !.pc = "verify",
                                !.read_back = Written(fill.fill_mode, fill.rut_to_use)]
       \/ fill' = [fill EXCEPT !.pc = "raised"]
    /\ UNCHANGED << scraper_vars, guard, rut, scan, cycle, closing >>

\* `if filled_value != rut_to_use`: the field is emptied again, the
\* identifier is typed character by character and read back; a value that
\* still differs raises
FillVerify ==
    /\ fill.pc = "verify"
    /\ IF fill.read_back # fill.rut_to_use
       THEN LET final_value == Written(fill.type_mode, fill.rut_to_use) IN
            fill' = [fill EXCEPT
                       !.typed = TRUE,
                       !.read_back = final_value,
                       !.k = 1,
                       !.pc = IF FinalCheck(final_value, fill.rut_to_use)
                              THEN "raised" ELSE "submit"]
       ELSE fill' = [fill EXCEPT !.pc = "submit", !.k = 1]
    /\ UNCHANGED << scraper_vars, guard, rut, scan, cycle, closing >>

\* the submission: the guard, the submit selectors in turn and the click, the
\* wait for network quiescence, the guard.  No submit control, a click that
\* raises and a wait that runs into its timeout leave through the except
\* clause, which raises again.
FillSubmit ==
    /\ fill.pc = "submit"
    /\ fill.k <= Len(GuardedClick)
    /\ LET call == GuardedClick[fill.k] IN
       \/ fill' = [fill EXCEPT !.k = @ + 1,
                                !.log = Append(@, call),
                                !.clicked = @ \/ call = "click"]
       \/ /\ call \in {"click", "wait"}
          /\ fill' = [fill EXCEPT !.pc = "raised"]
    /\ UNCHANGED << scraper_vars, guard, rut, scan, cycle, closing >>

\* "Formulario enviado correctamente": fill_rut_form returns
FillReturn ==
    /\ fill.pc = "submit"
    /\ fill.k > Len(GuardedClick)
    /\ fill' = [fill EXCEPT !.pc = "returned"]
    /\ UNCHANGED << scraper_vars, guard, rut, scan, cycle, closing >>

\* the head of a cycle of the click loop: retry_count += 1 and the search of
\* the button; no button: wait 3 s and start the next cycle; an exception of
\* the table script or of the search goes to the except clause
CycleTop ==
    /\ \/ cycle.pc = "idle" /\ fill.pc = "returned"
       \/ cycle.pc = "top"
    /\ cycle.retry_count < MaxCycles
    /\ \E o \in {"found", "no_button", "raises"} :
          cycle' = [cycle EXCEPT
                      !.retry_count = @ + 1,
                      !.log = << >>,
                      !.k = 1,
                      !.ended = IF o = "no_button" THEN o ELSE "none",
                      !.pc = IF o = "found" THEN "click"
                             ELSE IF o = "raises" THEN "except" ELSE "top"]
    /\ UNCHANGED << scraper_vars, guard, rut, scan, fill, closing >>

\* the guard, the click on the button, the wait for network quiescence, the
\* guard; a click that raises and a wait that runs into its timeout go to
\* the except clause
CycleClick ==
    /\ cycle.pc = "click"
    /\ cycle.k <= Len(GuardedClick)
    /\ LET call == GuardedClick[cycle.k] IN
       \/ cycle' = [cycle EXCEPT !.k = @ + 1, !.log = Append(@, call)]
       \/ /\ call \in {"click", "wait"}
          /\ cycle' = [cycle EXCEPT !.pc = "except"]
    /\ UNCHANGED << scraper_vars, guard, rut, scan, fill, closing >>

\* `if modal_appeared`: wait 2 s and start the next cycle; otherwise the
\* cycle goes on to the error scan
CycleAfterClick ==
    /\ cycle.pc = "click"
    /\ cycle.k > Len(GuardedClick)
    /\ \E appeared \in BOOLEAN :
          cycle' = [cycle EXCEPT
                      !.ended = IF appeared THEN "overlay" ELSE "clear",
                      !.pc = IF appeared THEN "top" ELSE "scan"]
    /\ UNCHANGED << scraper_vars, guard, rut, scan, fill, closing >>

\* except Exception: wait 3 s and start the next cycle
CycleExcept ==
    /\ cycle.pc = "except"
    /\ cycle' = [cycle EXCEPT !.ended = "fault", !.pc = "top"]
    /\ UNCHANGED << scraper_vars, guard, rut, scan, fill, closing >>

FillNext ==
    \/ FillGuard
    \/ FillFind
    \/ FillWrite
    \/ FillVerify
    \/ FillSubmit
    \/ FillReturn
    \/ CycleTop
    \/ CycleClick
    \/ CycleAfterClick
    \/ CycleExcept

FillSpec == FillInit /\ [][FillNext]_vars

(***************************************************************************)
(* Properties                                                              *)
(***************************************************************************)
PromptPcs == {"prompt_main", "prompt_manual"}

ClickPcs == {"cl_top", "cl_click", "cl_scan", "cl_except"}

\* check_availability has just returned, or its Outcome is about to be returned
AfterCheckPcs == {"rsc_handle", "rsc_return"}

C2_TimeoutRetriesKeepingSession ==
    /\ \A s \in {"timeout_error", "estatus_error"}, m \in BOOLEAN :
          HandleErrorAutomatically(s, m) = "retry_without_restart"
    /\ (/\ pc = "rsc_dispatch"
        /\ policy = "auto"
        /\ result.status \in {"timeout_error", "estatus_error"})
       => action = "retry_without_restart"

\* C2 witness: the automatic policy has decided a timeout with no overlay present
C2_Witness ==
    /\ pc = "rsc_dispatch"
    /\ policy = "auto"
    /\ result.status = "timeout_error"
    /\ ~modal_closed
    /\ action = "retry_without_restart"

C4_UnknownRetriesKeepingSession ==
    (/\ pc = "rsc_return"
     /\ mode = "continuous"
     /\ result.status \in {"unknown_error", "error", "uncertain"})
    => action = "retry_without_restart"

\* C5: in Continuous mode an action 'retry_without_restart' of the policy is
\* on the result the driver receives, and the driver does not wait the poll
\* interval after it.
C5_RetryKeepSessionSkipsWait ==
    (mode = "continuous" /\ action = "retry_without_restart") =>
        /\ pc = "driver" => ret.action = "retry_without_restart"
        /\ pc # "waiting"

\* C6: in Continuous mode the driver has waited the poll interval when it
\* starts the check that follows a cycle decided 'continue'.
C6_ContinueWaitsInterval ==
    (/\ mode = "continuous"
     /\ pc = "run_single_check"
     /\ attempt_count >= 1
     /\ action = "continue")
    => waited

\* C7: in SingleCheck mode the program does not finish after the operator
\* chose retry before a second check cycle has run.
C7_RetryRunsAnotherCycle ==
    (mode = "single" /\ pc = "done" /\ action = "retry") => attempt_count >= 2

\* C8: every step at a menu prompt either returns the action mapped to a valid
\* choice (main menu 1 continue, 2 retry, 4 exit; manual menu
\* 1 continue_from_current, 2 retry, 4 exit), or enters the manual menu on 3,
\* or prompts again without an action (invalid input, keep pausing).
C8_PromptStep ==
    pc \in PromptPcs =>
        /\ action = "none"
        /\ IF pc = "prompt_main"
           THEN \/ choice' = "1" /\ pc' = "rsc_dispatch" /\ action' = "continue"
                \/ choice' = "2" /\ pc' = "rsc_dispatch" /\ action' = "retry"
                \/ choice' = "4" /\ pc' = "rsc_dispatch" /\ action' = "exit"
                \/ choice' = "3" /\ pc' = "prompt_manual" /\ action' = "none"
                \/ /\ choice' \notin {"1", "2", "3", "4"}
                   /\ pc' = "prompt_main"
                   /\ action' = "none"
           ELSE \/ /\ choice' = "1"
                   /\ pc' = "rsc_dispatch"
                   /\ action' = "continue_from_current"
                \/ choice' = "2" /\ pc' = "rsc_dispatch" /\ action' = "retry"
                \/ choice' = "4" /\ pc' = "rsc_dispatch" /\ action' = "exit"
                \/ /\ choice' \notin {"1", "2", "4"}
                   /\ pc' = "prompt_manual"
                   /\ action' = "none"

C9_ClickLoopReturns ==
    (pc \in ClickPcs) ~> (pc \in AfterCheckPcs /\ result.status \in Statuses)

\* C9 witness: the loop classified the page after every disturbed cycle allowed
\* had an overlay after the click
C9_Witness ==
    /\ pc \in AfterCheckPcs
    /\ overlay_cycles = MaxDisturbedCycles
    /\ ~modal_appeared
    /\ result.status = "availability_found"

\* C10: the click loop never returns timeout_error or estatus_error; a
\* post-click error scan with one of them starts another cycle, any other error
\* found by that scan is returned as it is.  (A scan that swallowed a fault of
\* its own yields no error.)
C10_Step ==
    /\ (pc \in ClickPcs /\ pc' \notin ClickPcs) =>
          result'.status \notin {"timeout_error", "estatus_error"}
    /\ (/\ pc = "cl_scan"
        /\ pc' # pc
        /\ CheckErrorMessages(content) # "None"
        /\ ~scan_fault'
        /\ result'.status # "user_interrupted") =>
          IF CheckErrorMessages(content) \in {"timeout_error", "estatus_error"}
          THEN pc' = "cl_top" /\ result' = result
          ELSE pc' \in AfterCheckPcs /\ result' = Outcome(CheckErrorMessages(content))

C11_Step ==
    (/\ \/ pc = "cl_except"
        \/ pc = "cl_top" /\ pc' # "cl_click"
     /\ result'.status # "user_interrupted")
    => pc' \in ClickPcs

C11_FaultyCycleStaysInLoop == [][C11_Step]_vars

\* C12: no classification step (the error scan, the keyword scan, the DOM
\* probe) is performed while the last guard run of the cycle reported an
\* overlay: neither after the opening guard of check_availability nor after
\* the post-click guard of the click loop.
C12_Step ==
    (/\ pc \in {"ca_classify", "cl_scan"}
     /\ pc' # pc
     /\ result'.status \notin {"error", "user_interrupted"})
    => last_guard = "clear"

C12_ClassifyOnlyAfterClearGuard == [][C12_Step]_vars

\* C13: in Continuous mode, once run_single_check has returned the click
\* loop's 'user_interrupted' result to the driver, run_continuous_monitoring
\* starts no further check cycle (attempt_count is not incremented again).
C13_Step ==
    (mode = "continuous" /\ ret.status = "user_interrupted")
    => attempt_count' = attempt_count

C13_InterruptInLoopStopsMonitoring == [][C13_Step]_vars

\* C14: when the program has terminated because of Stop (the operator's exit)
\* or of a cancellation (an interrupt in the click loop or in the driver's
\* wait; Continuous mode ends in no other way) and a browser session exists,
\* cleanup(force_close=True) was executed after the last check cycle began.
C14_CleanupBeforeTermination ==
    (/\ pc = "done"
     /\ browser # "None"
     /\ \/ mode = "continuous"
        \/ action = "exit"
        \/ ret.status = "user_interrupted")
    => "cleanup" \in session_ops

\* C15: in Continuous mode a fault of a check cycle (initialize_browser,
\* recreate_browser_context, navigate_to_site or fill_rut_form raising, or
\* classification ending with status 'error') does not end
\* run_continuous_monitoring: run_single_check returns an 'error' result to the
\* driver, the driver counts down the poll interval and, unless an interrupt
\* arrives during the wait, calls run_single_check again.
C15_Step ==
    mode = "continuous" =>
        /\ pc = "rsc_except" => (pc' = "driver" /\ ret'.status = "error")
        /\ (pc = "rsc_handle" /\ result.status = "error") =>
              (pc' = "rsc_return" /\ result' = result)
        /\ (pc = "rsc_return" /\ result.status = "error") =>
              (pc' = "driver" /\ ret'.status = "error")
        /\ (pc = "driver" /\ ret.status = "error") =>
              (pc' = "waiting" /\ ret' = ret)
        /\ (pc = "waiting" /\ ret.status = "error") =>
              pc' \in {"waiting", "run_single_check", "done"}

C15_FaultNeverEndsMonitoring == [][C15_Step]_vars

\* C15 witness: the driver is about to start the check cycle that follows a
\* cycle in which recreate_browser_context raised after closing the page
C15_Witness ==
    /\ mode = "continuous"
    /\ pc = "run_single_check"
    /\ attempt_count = 2
    /\ ret.status = "error"
    /\ waited
    /\ page = "closed"
    /\ "page_close" \in session_ops

\* C16: when the program has terminated, in either run mode, the last result
\* run_single_check returned is not a Timeout or StatusPageError Outcome.
C16_TransientNeverFinal ==
    pc = "done" => ret.status \notin {"timeout_error", "estatus_error"}

\* the four operations of a context recreation
RecreationOps == {"page_close", "context_close", "new_context", "new_page"}

\* C17: in Continuous mode a check cycle after the first reaches the
\* navigation only through recreate_browser_context, which has closed the
\* page and the context the scraper held (one fewer live object for each
\* that was open) and created a new context and a new page; and the page is
\* loaded only from there.
C17_Step ==
    (mode = "continuous" /\ attempt_count > 1) =>
        /\ (pc' = "rsc_navigate" /\ pc # "rsc_navigate") =>
              /\ pc = "rsc_recreate"
              /\ RecreationOps \subseteq session_ops'
              /\ page' = "open"
              /\ context' = "open"
              /\ live'.page = Less(live.page, page) + 1
              /\ live'.context = Less(live.context, context) + 1
        /\ (pc' = "check_availability" /\ pc # "check_availability") =>
              pc = "rsc_navigate"

C17_RecreationBeforeNavigation == [][C17_Step]_vars

\* C17 witness: the second cycle of a monitoring run is about to navigate on
\* the page of a context created in this cycle
C17_Witness ==
    /\ mode = "continuous"
    /\ attempt_count = 2
    /\ pc = "rsc_navigate"
    /\ RecreationOps \subseteq session_ops
    /\ page = "open"
    /\ live.page = 1

\* C18: at every point of a run at most one browser, one context and one page
\* are open and not yet closed.
C18_AtMostOneSession ==
    /\ live.browser <= 1
    /\ live.context <= 1
    /\ live.page <= 1

C20_Step ==
    (/\ pc = "ca_classify"
     /\ pc' # pc
     /\ HasErrorPattern(url)
     /\ result'.status # "error")
    => /\ pc' \in AfterCheckPcs
       /\ result' = Outcome("no_availability")

C20_ErrorUrlIsNoAvailability == [][C20_Step]_vars

\* the statuses of the Error outcomes
ErrorStatuses ==
    {"timeout_error", "no_availability_error", "unknown_error", "estatus_error",
     "error"}

\* C21: for every URL, when the content that check_availability classifies
\* holds both an explicit error banner and an availability keyword, the
\* Outcome it returns is an Error outcome, never Available.
C21_Step ==
    (/\ pc = "ca_classify"
     /\ pc' \in AfterCheckPcs
     /\ {"banner", "seleccione"} \subseteq content)
    => /\ result'.status \in ErrorStatuses
       /\ result'.available # "True"

C21_BannerOutranksAvailability == [][C21_Step]_vars

\* where control is while check_availability runs
CheckPcs == {"check_availability", "ca_classify"} \cup ClickPcs

\* C23: when check_availability reaches its keyword scans (the URL has neither
\* 'paso-1.aspx' nor 'estatus.aspx' nor the error pattern), and when
\* _continue_availability_check runs after an error scan that reported no
\* error, the Outcome is no_availability_content if a no-availability keyword
\* occurs in the content, even beside an availability keyword; else
\* availability_found if an availability keyword occurs; else
\* possible_availability if a next-step control is present; else uncertain.
\* (Outcomes of a fault or an interrupt set aside.)
C23_Step ==
    (/\ \/ /\ pc = "ca_classify"
           /\ ~ (HasPaso1(url) \/ HasEstatus(url) \/ HasErrorPattern(url))
        \/ /\ pc = "cl_scan"
           /\ CheckErrorMessages(content) = "None" \/ scan_fault'
     /\ pc' \in AfterCheckPcs
     /\ result'.status \notin {"error", "user_interrupted"})
    => /\ result'.status =
             IF \E k \in {"noexisten", "nohaycitas", "timeout"} : k \in content
             THEN "no_availability_content"
             ELSE IF "seleccione" \in content THEN "availability_found"
             ELSE IF "calendario" \in content THEN "possible_availability"
             ELSE "uncertain"
       /\ result'.available =
             IF \E k \in {"noexisten", "nohaycitas", "timeout"} : k \in content
             THEN "False"
             ELSE IF {"seleccione", "calendario"} \cap content # {} THEN "True"
             ELSE "None"

C23_KeywordScanOrder == [][C23_Step]_vars

\* the no-availability keyword beside the availability keyword, classified
C23_Witness ==
    /\ pc \in AfterCheckPcs
    /\ content = {"nohaycitas", "seleccione"}
    /\ result = Outcome("no_availability_content")
    /\ ~scan_fault

\* C24: check_availability never propagates an exception: from every point of
\* it, whatever the page is and whichever page interaction raises, control
\* stays inside it or returns to run_single_check with an Outcome; it never
\* reaches run_single_check's except clause.
C24_Step ==
    pc \in CheckPcs
    => /\ pc' \in CheckPcs \cup AfterCheckPcs
       /\ pc' \in AfterCheckPcs => result'.status \in Statuses

C24_CheckAvailabilityNeverRaises == [][C24_Step]_vars

\* a fault that left the click loop was turned into an Outcome
C24_Witness ==
    /\ pc \in AfterCheckPcs
    /\ result = Outcome("error")
    /\ retry_count > 0
    /\ ~page_static

\* C25: whenever a page interaction raises inside the error scan or inside the
\* status page analysis, the Outcome check_availability returns has status
\* 'error'.
C25_Step ==
    (/\ pc \in CheckPcs
     /\ pc' \in AfterCheckPcs
     /\ scan_fault')
    => result'.status = "error"

C25_ScanFaultGivesError == [][C25_Step]_vars

\* C26: when check_availability classifies the page a second time
\* (continue_from_current) and the page has been the same throughout, with no
\* overlay, no fault and no interrupt, the second Outcome is the first one.
C26_Step ==
    (/\ rechecked
     /\ pc \in CheckPcs
     /\ pc' = "rsc_return"
     /\ page_static')
    => result' = result

C28_FormatKeepsValid ==
    rut.pc \in {"applied", "mutated"} /\ rut.valid => rut.formatted_valid

\* an accepted entry typed with periods, which _format_rut rewrote
C28_Witness ==
    /\ rut.pc = "applied"
    /\ rut.valid
    /\ rut.formatted_valid
    /\ rut.formatted_rut # rut.rut_input
    /\ rut.formatted_rut = << "1", "8", "9", "7", "7", "3", "8", "6", "-", "2" >>

\* C29: for every entry that _validate_rut accepts and every replacement of
\* its check character by a different single character, _validate_rut
\* rejects the changed entry.
C29_EveryOtherCheckCharRejected ==
    rut.pc = "mutated" => ~rut.mutated_valid

\* C29 (amended): for every entry that _validate_rut accepts and every
\* replacement of its check character by a character that is different after
\* upper-casing, _validate_rut rejects the changed entry; the replacement of
\* 'K' by 'k', or of 'k' by 'K', is accepted.
C29_OtherCheckCharRejectedUpToCase ==
    rut.pc = "mutated" =>
        LET old == rut.rut_input[Len(rut.rut_input)]
            new == rut.mutated_rut[Len(rut.mutated_rut)]
        IN  rut.mutated_valid <=> (Upper(new) = Upper(old))

\* an accepted entry whose check digit was replaced by another digit
C29_Witness ==
    /\ rut.pc = "mutated"
    /\ rut.rut_input = << "1", "8", "9", "7", "7", "3", "8", "6", "-", "2" >>
    /\ rut.mutated_rut = << "1", "8", "9", "7", "7", "3", "8", "6", "-", "3" >>
    /\ ~rut.mutated_valid

\* the check character the digits of a number call for: the sum of digit
\* times weight, the weights 2, 3, 4, 5, 6, 7, 2, ... from the rightmost digit
RECURSIVE C30_WeightedSum(_, _)
C30_WeightedSum(numero, k) ==
    IF k > Len(numero) THEN 0
    ELSE DigitValue(numero[Len(numero) + 1 - k]) * (2 + ((k - 1) % 6))
         + C30_WeightedSum(numero, k + 1)

C30_Expected(numero) ==
    LET v == 11 - (C30_WeightedSum(numero, 1) % 11)
    IN  IF v = 11 THEN "0" ELSE IF v = 10 THEN "K" ELSE DigitChars[v + 1]

\* the entry is 7 or 8 digits, a dash and one character
C30_InDomain(s) ==
    /\ Len(s) \in {9, 10}
    /\ \A i \in 1 .. (Len(s) - 2) : s[i] \in Digits
    /\ s[Len(s) - 1] = "-"

\* C30: for every entry of 7 or 8 digits, a dash and a check character,
\* _validate_rut accepts it exactly when the check character equals the one
\* computed from the digits.
C30_ValidIffCheckCharEqual ==
    rut.pc = "applied" /\ C30_InDomain(rut.rut_input) =>
        ( rut.valid <=>
            rut.rut_input[Len(rut.rut_input)]
                = C30_Expected(SubSeq(rut.rut_input, 1, Len(rut.rut_input) - 2)) )

\* C30 (amended): for every entry of 7 or 8 digits, a dash and a check
\* character, _validate_rut accepts it exactly when the check character,
\* upper-cased, equals the one computed from the digits (so 'k' is accepted
\* where 'K' is computed).
C30_ValidIffCheckCharEqualUpToCase ==
    rut.pc = "applied" /\ C30_InDomain(rut.rut_input) =>
        ( rut.valid <=>
            Upper(rut.rut_input[Len(rut.rut_input)])
                = C30_Expected(SubSeq(rut.rut_input, 1, Len(rut.rut_input) - 2)) )

\* a number of 7 digits whose computed check character is 'K', accepted
C30_Witness ==
    /\ rut.pc = "applied"
    /\ Len(rut.rut_input) = 9
    /\ C30_InDomain(rut.rut_input)
    /\ rut.rut_input[9] = "K"
    /\ rut.valid

\* C27: in continuous mode, with the identifier '18977386-2' and a page whose
\* content holds 'no existen horas disponibles', the check cycle yields status
\* 'no_availability_content' and the driver then goes on monitoring.
C27_Step ==
    /\ ValidateRut(RutEjemplo \o << "-", "2" >>)
    /\ (/\ mode = "continuous"
        /\ pc \in CheckPcs
        /\ pc' \in AfterCheckPcs
        /\ "noexisten" \in content
        /\ page_static')
       => result' = Outcome("no_availability_content")
    /\ (/\ pc = "driver"
        /\ "noexisten" \in content
        /\ ret.status \in {"no_availability_content", "no_availability_error"})
       => pc' \in {"waiting", "run_single_check"}

C27_AmendedStep ==
    /\ ValidateRut(RutEjemplo \o << "-", "2" >>)
    /\ (/\ mode = "continuous"
        /\ pc \in {"ca_classify", "cl_scan"}
        /\ pc' \in AfterCheckPcs
        /\ "noexisten" \in content
        /\ "timeout" \notin content
        /\ ~scan_fault'
        /\ result'.status \notin {"error", "user_interrupted"})
       => result' = IF pc = "cl_scan" \/ HasPaso1(url) \/ HasEstatus(url)
                    THEN Outcome("no_availability_error")
                    ELSE Outcome("no_availability_content")
    /\ (/\ pc = "auto"
        /\ result.status = "no_availability_error"
        /\ last_guard' = "clear")
       => action' = "continue"
    /\ (/\ pc = "rsc_handle"
        /\ result.status = "no_availability_content")
       => pc' = "rsc_return" /\ decisions' = decisions /\ policy' = policy
    /\ (/\ pc = "driver"
        /\ ret.status = "no_availability_content")
       => pc' = "waiting"

C22_SomeTextHas(found_errors, phrase) ==
    \E k \in 1 .. Len(found_errors) :
        Contains([i \in 1 .. Len(found_errors[k]) |-> Lower(found_errors[k][i])],
                 phrase)

C22_Timeout(found_errors) ==
    \/ C22_SomeTextHas(found_errors, << "tiempo máximo", "de espera" >>)
    \/ C22_SomeTextHas(found_errors, << "excedido" >>)

C22_NoAvailability(found_errors) ==
    \/ C22_SomeTextHas(found_errors, << "no existen horas" >>)
    \/ C22_SomeTextHas(found_errors, << "sin disponibilidad" >>)

\* a text ends with the first half of the timeout phrase and the next text
\* begins with the second half
C22_TimeoutAcrossTexts(found_errors) ==
    \E k \in 1 .. (Len(found_errors) - 1) :
        /\ Lower(found_errors[k][Len(found_errors[k])]) = "tiempo máximo"
        /\ Lower(found_errors[k + 1][1]) = "de espera"

\* C22: when the error scan found at least one error text, the Outcome is
\* timeout_error if some text holds timeout phrasing, otherwise
\* no_availability_error if some text holds no-availability phrasing, otherwise
\* unknown_error; in each case it carries every text found.
C22_StatusByTexts ==
    scan.pc = "returned" /\ scan.found_errors # << >> =>
        /\ scan.returned.status =
              IF C22_Timeout(scan.found_errors) THEN "timeout_error"
              ELSE IF C22_NoAvailability(scan.found_errors) THEN "no_availability_error"
              ELSE "unknown_error"
        /\ scan.returned.all_errors = scan.found_errors

\* C22 (amended): when the error scan found at least one error text, the
\* Outcome is timeout_error if the texts, joined by single spaces and
\* lower-cased, hold timeout phrasing (in one text, or begun at the end of one
\* text and finished at the start of the next), otherwise no_availability_error
\* if they hold no-availability phrasing, otherwise unknown_error; in each
\* case it carries every text found, and the first one as its message.
C22_StatusByJoinedTexts ==
    scan.pc = "returned" /\ scan.found_errors # << >> =>
        /\ scan.returned.status =
              IF C22_Timeout(scan.found_errors) \/ C22_TimeoutAcrossTexts(scan.found_errors)
              THEN "timeout_error"
              ELSE IF C22_NoAvailability(scan.found_errors) THEN "no_availability_error"
              ELSE "unknown_error"
        /\ scan.returned.all_errors = scan.found_errors
        /\ scan.returned.message = scan.found_errors[1]

\* a timeout text and a no-availability text found together: timeout wins and
\* both texts are carried
C22_Witness ==
    /\ scan.pc = "returned"
    /\ scan.found_errors = << << "No existen horas" >>, << "EXCEDIDO" >> >>
    /\ scan.returned.status = "timeout_error"
    /\ scan.returned.all_errors = scan.found_errors

(***************************************************************************)
(* C31 .. C33: the pattern test, _format_rut and get_user_input            *)
(***************************************************************************)
\* 7 or 8 digits, one dash, one character that is a digit or 'K'
C31_DigitsDashCheck(s) ==
    \E n \in {7, 8} :
        /\ Len(s) = n + 2
        /\ \A i \in 1 .. n : s[i] \in Digits
        /\ s[n + 1] = "-"
        /\ s[n + 2] \in Digits \cup {"K"}

\* C31: _validate_rut returns false for every raw input that is not exactly
\* 7 or 8 digits followed by one dash and one character that is a digit or
\* 'K'.
C31_RawNonPatternRejected ==
    (rut.pc \in {"applied", "mutated"} /\ ~C31_DigitsDashCheck(rut.rut_input))
    => ~rut.valid

\* C31 (amended): _validate_rut returns false for every input that, once its
\* spaces and periods are removed and its letters upper-cased, is not exactly
\* 7 or 8 digits followed by one dash and one character that is a digit or
\* 'K'; an input that has this shape only after that normalisation
\* ('18.977.386-2') is tested by its check character like any other.
C31_NormalisedNonPatternRejected ==
    rut.pc \in {"applied", "mutated"} =>
        /\ ~C31_DigitsDashCheck(StripAndUpper(rut.rut_input)) => ~rut.valid
        /\ (/\ ~C31_DigitsDashCheck(rut.rut_input)
            /\ C31_DigitsDashCheck(StripAndUpper(rut.rut_input)))
           => rut.valid = (StripAndUpper(rut.rut_input)[Len(StripAndUpper(rut.rut_input))]
                             = DvCalculado(SubSeq(StripAndUpper(rut.rut_input), 1,
                                                  Len(StripAndUpper(rut.rut_input)) - 2)))

\* C31 witness: six digits with the check character computed for them were
\* entered and rejected
C31_Witness ==
    /\ rut.pc = "applied"
    /\ Len(rut.rut_input) = 6 + 2
    /\ rut.rut_input[7] = "-"
    /\ rut.rut_input[8] = DvCalculado(SubSeq(rut.rut_input, 1, 6))
    /\ \A i \in 1 .. 6 : rut.rut_input[i] \in Digits
    /\ ~rut.valid

C32_NoDash(s) == \A i \in 1 .. Len(s) : s[i] # "-"

\* s with one dash put before its last character
C32_Dashed(s) == SubSeq(s, 1, Len(s) - 1) \o << "-" >> \o << s[Len(s)] >>

C33_Automating ==
    \/ pc \in {"rsc_recreate", "rsc_navigate", "rsc_except"} \cup CheckPcs \cup AfterCheckPcs
    \/ attempt_count > 0
    \/ browser # "None"

\* C33: get_user_input assigns user_rut only a normalized identifier that
\* _validate_rut accepts; an empty or invalid entry leaves user_rut unchanged
\* and leads to another prompt, and main starts no browser automation before a
\* valid identifier was accepted.
C33_Step ==
    /\ user_rut' # user_rut
          => /\ pc = "get_user_input" /\ rut.pc = "entered"
             /\ user_rut' = StripAndUpper(user_rut')
             /\ C31_DigitsDashCheck(user_rut')
             /\ ValidateRut(user_rut')
             /\ \/ StripAndUpper(rut.rut_input) = user_rut'
                \/ C32_Dashed(StripAndUpper(rut.rut_input)) = user_rut'
    /\ (/\ pc = "get_user_input" /\ rut.pc = "entered"
        /\ \/ rut.rut_input = << >>
           \/ /\ ~ValidateRut(rut.rut_input)
              /\ ~ValidateRut(C32_Dashed(rut.rut_input)))
          => /\ user_rut' = user_rut
             /\ pc' = "get_user_input"
             /\ rut'.pc = "idle"
    /\ (~C33_Automating /\ C33_Automating')
          => (user_rut # << >> /\ ValidateRut(user_rut) /\ user_rut' = user_rut)

C33_OnlyValidIdentifierAccepted == [][C33_Step]_vars

\* C33 witness: the first check cycle runs with the identifier that was
\* entered without its dash
C33_Witness ==
    /\ pc = "rsc_navigate"
    /\ attempt_count = 1
    /\ user_rut = RutEjemplo \o << "-", "2" >>

(***************************************************************************)
(* C34 .. C40: cleanup, the guard bracket, _close_modal, fill_rut_form,    *)
(* the session after a return and continuous monitoring                    *)
(***************************************************************************)
\* the Outcome run_single_check is returning at rsc_return / rsc_except
C34_Returned == IF pc = "rsc_return" THEN result ELSE Outcome("error")

\* C34: a fault raised by a close call inside cleanup is caught there, so the
\* finally block of run_single_check never replaces the Outcome being
\* returned by an exception: every step that leaves rsc_return or rsc_except
\* arrives at the caller with that Outcome
C34_Step ==
    (pc \in {"rsc_return", "rsc_except"} /\ pc' # pc) =>
        (pc' = Caller /\ ret' = C34_Returned)

C34_CleanupNeverRaises == [][C34_Step]_vars

\* cleanup ran, its first close call (the page's) raised, and main has the
\* Outcome of the check
C34_Witness ==
    /\ pc = "main_result"
    /\ "cleanup" \in session_ops
    /\ page = "open"
    /\ browser = "open"
    /\ ret.status = "availability_found"

\* the conditions under which run_single_check keeps the session
C38_Keeps(r) ==
    \/ mode = "continuous"
    \/ r.action \in {"retry", "continue"}
    \/ r.status = "user_interrupted"

\* C38: on return from run_single_check, cleanup(force_close=True) is run on
\* the session exactly when the run is not continuous and the Outcome obtained
\* carries neither action 'retry' nor 'continue' nor status 'user_interrupted';
\* a session that is kept is not touched by the return; when a step raised
\* with `result` still {}, cleanup runs in single mode and not in continuous
C38_Step ==
    (pc \in {"rsc_return", "rsc_except"} /\ pc' # pc) =>
        /\ "cleanup" \notin session_ops
        /\ ("cleanup" \in session_ops') <=> ~C38_Keeps(result)
        /\ C38_Keeps(result) =>
              << browser, context, page, live >>' = << browser, context, page, live >>
        /\ (pc = "rsc_except" /\ result = EmptyResult) =>
              (("cleanup" \in session_ops') <=> (mode # "continuous"))

C40_Step ==
    (mode = "continuous" /\ pc' # pc) =>
        /\ (pc = "driver" /\ ret.available = "True") => pc' = "waiting"
        /\ pc = "waiting" =>
              \/ pc' = "run_single_check" /\ waited'
              \/ pc' = "done"
        /\ pc' = "done" => pc = "waiting"

C40_AvailableKeepsMonitoring == [][C40_Step]_vars

\* after an Available outcome the countdown ended and the next cycle is due
C40_Witness ==
    /\ mode = "continuous"
    /\ pc = "run_single_check"
    /\ waited
    /\ ret.available = "True"
    /\ attempt_count >= 1

\* C39: after cleanup(force_close=True) closed the session, a later call of
\* run_single_check goes on to the context recreation and to the navigation
\* with a newly launched browser, never with the closed one
C39_LaterCallUsesNewSession ==
    pc \in {"rsc_recreate", "rsc_navigate"} => browser # "closed"

\* the place of a strategy in the order of the claim
C36_Rank(strategy) ==
    IF strategy = "close_control" THEN 1
    ELSE IF strategy = "escape" THEN 2
    ELSE IF strategy = "outside" THEN 3
    ELSE 4

\* the strategy attempted by a step of _close_modal
C36_Attempt == closing.tried'[Len(closing.tried')]

\* C36 as stated: the strategies are attempted strictly in the order
\* close-control click, Escape, click outside, force-hide, and none is
\* attempted once an earlier one has succeeded, i.e. once the overlay is no
\* longer displayed
C36_StatedStep ==
    closing.tried' # closing.tried =>
        /\ \A i \in 1 .. Len(closing.tried) :
              C36_Rank(closing.tried[i]) <= C36_Rank(C36_Attempt)
        /\ closing.visible

C36_Step ==
    closing.tried' # closing.tried =>
        /\ closing.returned = "none"
        /\ \A i \in 1 .. Len(closing.tried) :
              \/ C36_Rank(closing.tried[i]) < C36_Rank(C36_Attempt)
              \/ closing.tried[i] = "close_control" /\ C36_Attempt = "close_control"
        /\ C36_Attempt \in {"escape", "outside"} => closing.visible
        /\ C36_Attempt = "force_hide" =>
              closing.tried[Len(closing.tried)] = "outside"

C35_Bracketed(log, complete) ==
    \A i \in 1 .. Len(log) :
        log[i] = "click" =>
            /\ i > 1 /\ log[i - 1] = "guard"
            /\ \A j \in 1 .. Len(log) : log[j] = "click" => j = i
            /\ complete =>
                  /\ i + 2 <= Len(log)
                  /\ log[i + 1] = "wait"
                  /\ log[i + 2] = "guard"

C37_SubmitsOnlyVerifiedValue ==
    /\ fill.clicked => fill.read_back = fill.rut_to_use
    /\ fill.pc \in {"submit", "returned"} => fill.read_back = fill.rut_to_use
    /\ (fill.typed /\ fill.read_back # fill.rut_to_use) =>
          (fill.pc = "raised" /\ ~fill.clicked)

\* the fill left another value in the field, the typing retry the identifier,
\* and the form was submitted
C37_Witness ==
    /\ fill.clicked
    /\ fill.typed
    /\ fill.fill_mode # "plain"
    /\ fill.read_back = fill.rut_to_use

====
